---- MODULE Spec2Model ----
(***************************************************************************)
(* Document processing pipeline: ingest (DocumentService.ProcessFile),     *)
(* the asynq broker with its three queues, the worker handler              *)
(* (DocumentWorker.handleDocumentProcess / DocumentService.HandleDocument),*)
(* the status projection (AsynqQueue.GetTaskStatus with the sidecar KV     *)
(* task_status:<id>), cancellation and the retention sweep.                *)
(*                                                                         *)
(* Time is a logical clock: `now` orders the timestamped writes, and       *)
(* `horizon` is the instant 24h before the present on that time line. The  *)
(* status TTL and the retention period are both 24h, so an object or a KV  *)
(* entry written before the horizon is older than either window.           *)
(***************************************************************************)
EXTENDS Integers, Sequences, FiniteSets, TLC

\* ---------------------------------------------------------------- bounds
NumTasks == 1
MaxClock == 2

\* ------------------------------------------------------ program constants
MaxRetry == 3
MaxFileSize == 52428800
Concurrency == 10

Tasks == 1..NumTasks
Filenames == {"a.pdf", "b.PDF", "d.exe"}
Queues == <<"critical", "default", "low">>
QueuePriorities == {0, 1, 2}
QueueNames == {Queues[i] : i \in 1..Len(Queues)}
Priorities == {0, 1, 2, 3}

VARIABLES
    now,            \* time.Now(), as a logical timestamp
    horizon,        \* time.Now() minus 24h, on the same time line
    queuePriority,  \* ServiceConfig.QueuePriority
    ingest,         \* ProcessFile position per task: idle/stored/enqueued/done/failed
    fileId,         \* payload["fileId"] of the task
    broker,         \* asynq task record per task id
    kv,             \* sidecar KV: task_status:<id>
    blobs,          \* blob store: key -> object (taskId: the task whose request or handler wrote it)
    hpc,            \* handler position per task
    resultStored,   \* handler local: the Store of result:<id> returned nil
    beacon,         \* last payload written to the broker's ResultWriter
    poll,           \* the in-flight GetTaskStatus call that missed the KV
    cancelled,      \* task ids for which CancelTask returned nil
    \* --- one PDF document going through Processor.Process and Convert
    pdf,            \* the input: kind of every page of the stored bytes
    run,            \* which invocation of the handler on that input this is
    spawned,        \* pages for which g.Go has been called
    wpc,            \* page worker position: unspawned/wait/run/send/done
    sem,            \* slots of the semaphore channel in use
    chunkChan,      \* buffered result channel
    chanClosed,     \* close(chunkChan) has run
    gerr,           \* the errgroup's first error
    parentCancelled,\* the context passed to Process is cancelled
    chunks,         \* the collector's slice
    cpc,            \* Process position: spawn/collect/done
    result,         \* what Process returned
    docs,           \* ProcessedDocument (or error) of each invocation so far
    \* --- the worker's view of the three queues under a backlog
    waiting,        \* number of pending tasks per queue
    inflight,       \* tasks the worker is processing
    lowEarly,       \* low tasks that began while a critical task was waiting
    \* --- AsynqQueue.Enqueue called directly, with ids chosen by the caller
    qtask,          \* the broker's task record per queue and task id
    \* --- one call of ProcessBatch
    files,          \* the headers of the batch
    batchPc,        \* ProcessBatch itself: spawn/wait/returned
    filePc,         \* the goroutine of each file: unspawned/run/lock/read/write/done
    fileRes,        \* what ProcessFile (or header.Open) gave for each file
    mu,             \* the goroutine holding the mutex, 0 if none
    seen,           \* the tasks slice as the appending goroutine read it
    batchTasks,     \* the tasks slice
    batchErr,       \* the errgroup's first error
    batchRet,       \* what ProcessBatch returned
    \* --- calls of ProcessorFactory.GetProcessor
    lookups,        \* the calls made so far: the type given and what came back
    \* --- image documents going through image Processor.Process and Convert
    ollamaConfig,   \* OllamaConfig: Enabled and MaxPoolSize
    ollamaPool,     \* idle clients in the pool's channel
    img,            \* per image task: position, locals and what came back
    poolShut,       \* OllamaClientPool.Close: channel closed, client.Close calls made
    \* --- one blob store under CleanupBefore
    clock,          \* time.Now() of the blob store's host
    objects,        \* key -> stored object
    sweep,          \* the CleanupBefore call: position, listing, outcome
    \* --- the worker process from start to exit
    mainPc,         \* main of cmd/worker: serving/signalled/stopped/returning/exited
    runPc,          \* the goroutine inside server.Run: serving/shutdown/returned
    srvState,       \* the broker server: active/stopped/closed
    handlers,       \* handler goroutines: idle/running/done/timedout
    stopChan,       \* number of close(stopChan) executed by BaseWorker.Stop
    \* --- the worker's handler called on tasks of any producer
    handled         \* the calls made so far: the task given and how the call ended

lvars == <<now, horizon, queuePriority, ingest, fileId, broker, kv, blobs, hpc,
           resultStored, beacon, poll, cancelled>>

pvars == <<pdf, run, spawned, wpc, sem, chunkChan, chanClosed, gerr,
           parentCancelled, chunks, cpc, result, docs>>

wvars == <<waiting, inflight, lowEarly>>

qvars == <<qtask>>

bvars == <<files, batchPc, filePc, fileRes, mu, seen, batchTasks, batchErr, batchRet>>

fvars == <<lookups>>

ivars == <<ollamaConfig, ollamaPool, img, poolShut>>

cvars == <<clock, objects, sweep>>

svars == <<mainPc, runPc, srvState, handlers, stopChan>>

hvars == <<handled>>

\* The variables of the image extractor, the cleanup sweep and the shutdown.
xvars == <<ollamaConfig, ollamaPool, img, poolShut, clock, objects, sweep,
           mainPc, runPc, srvState, handlers, stopChan, handled>>

\* The variables outside the pipeline life cycle and the PDF extractor.
avars == <<waiting, inflight, lowEarly, qtask,
           files, batchPc, filePc, fileRes, mu, seen, batchTasks, batchErr, batchRet,
           lookups,
           ollamaConfig, ollamaPool, img, poolShut, clock, objects, sweep,
           mainPc, runPc, srvState, handlers, stopChan, handled>>

vars == <<now, horizon, queuePriority, ingest, fileId, broker, kv, blobs, hpc,
          resultStored, beacon, poll, cancelled,
          pdf, run, spawned, wpc, sem, chunkChan, chanClosed, gerr,
          parentCancelled, chunks, cpc, result, docs,
          waiting, inflight, lowEarly, qtask,
          files, batchPc, filePc, fileRes, mu, seen, batchTasks, batchErr, batchRet,
          lookups,
          ollamaConfig, ollamaPool, img, poolShut, clock, objects, sweep,
          mainPc, runPc, srvState, handlers, stopChan, handled>>

\* ------------------------------------------------------------ data model
NoTask == [state |-> "none", queue |-> "", retried |-> 0, lastErr |-> ""]
NoStatus == [status |-> "none", progress |-> 0, error |-> "", at |-> 0]
NoQTask == [state |-> "none", retried |-> 0, attempts |-> 0, maxRetry |-> 0]
NoBlob == [present |-> FALSE, lastModified |-> 0, taskId |-> 0]
NoPoll == [pc |-> "idle", task |-> 0, status |-> NoStatus]

FileKey(f) == <<"file", f>>
ResultKey(t) == <<"result", t>>
BlobKeys == {FileKey(f) : f \in Filenames} \cup {ResultKey(t) : t \in Tasks}

\* The switch of Enqueue with 1, 2 and 3 as its cases and the default queue
\* as its default.
QueueOfDefaultFallback(p) ==
    IF p = 1 THEN "critical" ELSE IF p = 3 THEN "low" ELSE "default"

\* ServiceConfig.AllowedTypes as GetService and NewService set it.
AllowedTypes == {".pdf", ".doc", ".docx", ".jpg", ".jpeg", ".png", ".tiff"}

\* The multipart headers offered to ProcessFile.
Sizes == {1, MaxFileSize, MaxFileSize + 1}
Headers == [filename : Filenames, size : Sizes]

\* filepath.Ext on the file names in use.
Ext(f) ==
    IF f = "a.pdf" THEN ".pdf"
    ELSE IF f = "b.PDF" THEN ".PDF"
    ELSE IF f = "d.exe" THEN ".exe"
    ELSE ""

\* strings.ToLower on the type strings in use.
ToLower(x) ==
    IF x = ".PDF" THEN ".pdf"
    ELSE x

\* validateFile with the type check left out.
validateFileSizeOnly(header) ==
    IF header.size > MaxFileSize THEN "file size exceeds maximum limit" ELSE ""

\* validateFile: the size limit, then the lower-cased extension against the
\* allow-list; "" stands for nil.
validateFile(header) ==
    IF header.size > MaxFileSize THEN "file size exceeds maximum limit"
    ELSE IF ToLower(Ext(header.filename)) \notin AllowedTypes THEN "unsupported file type"
    ELSE ""

\* Enqueue: the queue a priority maps to.
QueueOf(p) == IF p = 1 THEN "critical" ELSE IF p = 2 THEN "default" ELSE "low"

\* SaveFinalStatus: the entry is written now and lives for 24h.
Saved(status, progress, error) ==
    [status |-> status, progress |-> progress, error |-> error, at |-> now]

\* convertAsynqStatus: only four broker states have a case.
ConvertAsynqStatus(info) ==
    IF info.state = "pending" THEN Saved("pending", 0, "")
    ELSE IF info.state = "active" THEN Saved("running", 50, "")
    ELSE IF info.state = "completed" THEN Saved("completed", 100, "")
    ELSE IF info.state = "retry" THEN Saved("failed", 0, info.lastErr)
    ELSE Saved("", 0, "")

\* inspector.GetTaskInfo(queueName, taskID) succeeds.
GetTaskInfoOk(q, t) == broker[t].state # "none" /\ broker[t].queue = q

\* The probe loop of GetTaskStatus: break on the first hit, lastErr keeps
\* the error of every queue probed before it.
RECURSIVE ProbeLoop(_, _, _)
ProbeLoop(t, i, lastErr) ==
    IF i > Len(Queues) THEN [found |-> FALSE, lastErr |-> lastErr]
    ELSE IF GetTaskInfoOk(Queues[i], t) THEN [found |-> TRUE, lastErr |-> lastErr]
    ELSE ProbeLoop(t, i + 1, TRUE)

\* The part of GetTaskStatus after a KV miss: error, or the projected status.
ProbeQueues(t) ==
    LET r == ProbeLoop(t, 1, FALSE)
    IN  IF r.lastErr THEN [err |-> TRUE, status |-> NoStatus]
        ELSE [err |-> FALSE, status |-> ConvertAsynqStatus(broker[t])]

\* GetTaskStatus as one call: KV first, the queues on a miss.
GetTaskStatus(t) ==
    IF kv[t].status # "none" THEN [err |-> FALSE, status |-> kv[t]]
    ELSE ProbeQueues(t)

\* GetProcessingStatus: the switch on status.Status.
MapStatus(s) ==
    IF s = "pending" THEN "pending"
    ELSE IF s = "active" THEN "running"
    ELSE IF s = "completed" THEN "completed"
    ELSE IF s = "failed" THEN "failed"
    ELSE "pending"

\* What GetProcessingStatus reports for a task in the current state.
GetProcessingStatus(t) ==
    LET r == GetTaskStatus(t)
    IN  IF r.err THEN [status |-> "error", error |-> ""]
        ELSE [status |-> MapStatus(r.status.status), error |-> r.status.error]

\* ------------------------------------------------------------------ Init
\* The pipeline after construction: nothing ingested yet.
PipelineInit ==
    /\ now = 0
    /\ horizon = 0
    /\ queuePriority \in QueuePriorities
    /\ ingest = [t \in Tasks |-> "idle"]
    /\ fileId = [t \in Tasks |-> ""]
    /\ broker = [t \in Tasks |-> NoTask]
    /\ kv = [t \in Tasks |-> NoStatus]
    /\ blobs = [k \in BlobKeys |-> NoBlob]
    /\ hpc = [t \in Tasks |-> "idle"]
    /\ resultStored = [t \in Tasks |-> FALSE]
    /\ beacon = [t \in Tasks |-> ""]
    /\ poll = NoPoll
    /\ cancelled = {}

\* No document is inside the PDF extractor.
PdfIdle ==
    /\ pdf = <<>>
    /\ run = 0
    /\ spawned = 0
    /\ wpc = <<>>
    /\ sem = 0
    /\ chunkChan = <<>>
    /\ chanClosed = FALSE
    /\ gerr = ""
    /\ parentCancelled = FALSE
    /\ chunks = <<>>
    /\ cpc = "idle"
    /\ result = [err |-> "", chunks |-> <<>>]
    /\ docs = <<>>

\* The worker has no backlog.
WorkerIdle ==
    /\ waiting = [i \in 1..Len(Queues) |-> 0]
    /\ inflight = 0
    /\ lowEarly = 0

\* Nothing has been enqueued by id.
QueueIdle == qtask = [q \in QueueNames |-> [id \in Tasks |-> NoQTask]]

\* ProcessBatch has not been called.
BatchIdle ==
    /\ files = <<>>
    /\ batchPc = "idle"
    /\ filePc = <<>>
    /\ fileRes = <<>>
    /\ mu = 0
    /\ seen = <<>>
    /\ batchTasks = <<>>
    /\ batchErr = ""
    /\ batchRet = [tasks |-> <<>>, err |-> ""]

\* The factory has been built and not asked yet.
FactoryInit == lookups = <<>>

\* No image task exists.
ImageIdle ==
    /\ ollamaConfig = [Enabled |-> FALSE, MaxPoolSize |-> 0]
    /\ ollamaPool = 0
    /\ img = <<>>
    /\ poolShut = [closed |-> FALSE, closedClients |-> 0]

\* The blob store is empty and no sweep runs.
NoSweep == [pc |-> "idle", impl |-> "", threshold |-> 0, listed |-> <<>>,
            pos |-> 0, listErr |-> FALSE, delFailed |-> FALSE, ret |-> ""]

CleanupIdle ==
    /\ clock = 0
    /\ objects = <<>>
    /\ sweep = NoSweep

\* No worker process has been started.
ShutdownIdle ==
    /\ mainPc = "idle"
    /\ runPc = "idle"
    /\ srvState = "new"
    /\ handlers = <<>>
    /\ stopChan = 0

\* The handler has not been called.
HandleIdle == handled = <<>>

ExtraIdle == ImageIdle /\ CleanupIdle /\ ShutdownIdle /\ HandleIdle

AuxIdle == WorkerIdle /\ QueueIdle /\ BatchIdle /\ FactoryInit /\ ExtraIdle

Init == PipelineInit /\ PdfIdle /\ AuxIdle

\* ---------------------------------------------------------------- ingest
\* ProcessFile on one header, up to storage.Store: a header that validateFile
\* refuses returns its error at once; otherwise the file is stored under its
\* filename.
ProcessFileHeader(t, header) ==
    IF validateFile(header) # ""
    THEN /\ ingest' = [ingest EXCEPT ![t] = "rejected"]
         /\ UNCHANGED <<blobs, fileId>>
    ELSE \E ok \in BOOLEAN :
        IF ok
        THEN /\ blobs' = [blobs EXCEPT ![FileKey(header.filename)] =
                    [present |-> TRUE, lastModified |-> now, taskId |-> t]]
             /\ fileId' = [fileId EXCEPT ![t] = header.filename]
             /\ ingest' = [ingest EXCEPT ![t] = "stored"]
        ELSE /\ ingest' = [ingest EXCEPT ![t] = "failed"]
             /\ UNCHANGED <<blobs, fileId>>

\* ProcessFile is called with some header.
ProcessFileStore(t) ==
    /\ ingest[t] = "idle"
    /\ \E header \in Headers : ProcessFileHeader(t, header)
    /\ UNCHANGED <<now, horizon, queuePriority, broker, kv, hpc, resultStored, beacon, poll, cancelled>>
    /\ UNCHANGED <<pvars, avars>>

\* ProcessFile: queue.Enqueue (ProcessIn(1s), MaxRetry(3), queue by priority).
ProcessFileEnqueue(t) ==
    /\ ingest[t] = "stored"
    /\ \E ok \in BOOLEAN :
        IF ok
        THEN /\ broker' = [broker EXCEPT ![t] =
                    [state |-> "scheduled", queue |-> QueueOf(queuePriority),
                     retried |-> 0, lastErr |-> ""]]
             /\ ingest' = [ingest EXCEPT ![t] = "enqueued"]
        ELSE /\ ingest' = [ingest EXCEPT ![t] = "failed"]
             /\ UNCHANGED broker
    /\ UNCHANGED <<now, horizon, queuePriority, fileId, kv, blobs, hpc, resultStored, beacon, poll, cancelled>>
    /\ UNCHANGED <<pvars, avars>>

\* ProcessFile: best-effort SaveFinalStatus(pending), then return the task.
ProcessFileSaveStatus(t) ==
    /\ ingest[t] = "enqueued"
    /\ \E ok \in BOOLEAN :
        kv' = IF ok THEN [kv EXCEPT ![t] = Saved("pending", 0, "")] ELSE kv
    /\ ingest' = [ingest EXCEPT ![t] = "done"]
    /\ UNCHANGED <<now, horizon, queuePriority, fileId, broker, blobs, hpc, resultStored, beacon, poll, cancelled>>
    /\ UNCHANGED <<pvars, avars>>

\* ---------------------------------------------------------------- broker
\* The broker's forwarder: a scheduled or retry task becomes pending when due.
Forward(t) ==
    /\ broker[t].state \in {"scheduled", "retry"}
    /\ broker' = [broker EXCEPT ![t].state = "pending"]
    /\ UNCHANGED <<now, horizon, queuePriority, ingest, fileId, kv, blobs, hpc, resultStored, beacon, poll, cancelled>>
    /\ UNCHANGED <<pvars, avars>>

\* A worker slot takes a pending task and calls handleDocumentProcess.
Dequeue(t) ==
    /\ broker[t].state = "pending"
    /\ Cardinality({u \in Tasks : broker[u].state = "active"}) < Concurrency
    /\ broker' = [broker EXCEPT ![t].state = "active"]
    /\ hpc' = [hpc EXCEPT ![t] = "begin"]
    /\ resultStored' = [resultStored EXCEPT ![t] = FALSE]
    /\ UNCHANGED <<now, horizon, queuePriority, ingest, fileId, kv, blobs, beacon, poll, cancelled>>
    /\ UNCHANGED <<pvars, avars>>

\* The handler returned err: failure beacon, then the broker retries or archives.
HandlerFailed(t, err) ==
    /\ beacon' = [beacon EXCEPT ![t] = "failed"]
    /\ hpc' = [hpc EXCEPT ![t] = "idle"]
    /\ broker' = [broker EXCEPT ![t] =
            IF broker[t].retried < MaxRetry
            THEN [state |-> "retry", queue |-> broker[t].queue,
                  retried |-> broker[t].retried + 1, lastErr |-> err]
            ELSE [state |-> "archived", queue |-> broker[t].queue,
                  retried |-> broker[t].retried, lastErr |-> err]]

\* --------------------------------------------------------------- handler
\* handleDocumentProcess: unmarshal, field check, "running" beacon to the
\* broker's ResultWriter; then HandleDocument is called.
HandleBegin(t) ==
    /\ hpc[t] = "begin"
    /\ beacon' = [beacon EXCEPT ![t] = "running"]
    /\ hpc' = [hpc EXCEPT ![t] = "get"]
    /\ UNCHANGED <<now, horizon, queuePriority, ingest, fileId, broker, kv, blobs, resultStored, poll, cancelled>>
    /\ UNCHANGED <<pvars, avars>>

\* HandleDocument: storage.Get(fileId).
HandleGet(t) ==
    /\ hpc[t] = "get"
    /\ \E ok \in BOOLEAN :
        IF ok /\ blobs[FileKey(fileId[t])].present
        THEN /\ hpc' = [hpc EXCEPT ![t] = "process"]
             /\ UNCHANGED <<broker, beacon>>
        ELSE HandlerFailed(t, "failed to get file")
    /\ UNCHANGED <<now, horizon, queuePriority, ingest, fileId, kv, blobs, resultStored, poll, cancelled>>
    /\ UNCHANGED <<pvars, avars>>

\* What GetProcessor and processor.Process can give HandleDocument: an error,
\* or n chunks with no error.
ProcessResults == {[err |-> "failed to process document", n |-> 0]}
                  \cup {[err |-> "", n |-> k] : k \in {0, 1, 2}}

\* Convert taking any number of chunks, none included.
ConvertErrorNever(n) == ""

\* The guard at the head of JSONConverter.Convert, on the number of chunks.
ConvertError(n) == IF n = 0 THEN "no chunks to convert" ELSE ""

\* HandleDocument from GetProcessor to Convert when the extractor gave r.
HandleProcessWith(t, r) ==
    /\ hpc[t] = "process"
    /\ IF r.err # ""
       THEN HandlerFailed(t, r.err)
       ELSE IF ConvertError(r.n) # ""
       THEN HandlerFailed(t, "failed to convert document")
       ELSE /\ hpc' = [hpc EXCEPT ![t] = "store"]
            /\ UNCHANGED <<broker, beacon>>
    /\ UNCHANGED <<now, horizon, queuePriority, ingest, fileId, kv, blobs, resultStored, poll, cancelled>>
    /\ UNCHANGED <<pvars, avars>>

\* HandleDocument: GetProcessor, Process, Convert succeed or one of them fails.
HandleProcess(t) == \E r \in ProcessResults : HandleProcessWith(t, r)

\* The handler's context is cancelled while HandleDocument runs: Process
\* returns ctx.Err(), HandleDocument wraps it and the handler returns it.
HandleCtxCancelled(t) ==
    /\ hpc[t] = "process"
    /\ HandlerFailed(t, "context canceled")
    /\ UNCHANGED <<now, horizon, queuePriority, ingest, fileId, kv, blobs, resultStored, poll, cancelled>>
    /\ UNCHANGED <<pvars, avars>>

\* HandleStore with the error of storage.Store dropped: the handler goes on
\* to SaveFinalStatus whether or not the result was written.
HandleStoreErrorIgnored(t) ==
    /\ hpc[t] = "store"
    /\ \E ok \in BOOLEAN :
        /\ blobs' = IF ok
                    THEN [blobs EXCEPT ![ResultKey(t)] =
                            [present |-> TRUE, lastModified |-> now, taskId |-> t]]
                    ELSE blobs
        /\ resultStored' = [resultStored EXCEPT ![t] = ok]
        /\ hpc' = [hpc EXCEPT ![t] = "save"]
        /\ UNCHANGED <<broker, beacon>>
    /\ UNCHANGED <<now, horizon, queuePriority, ingest, fileId, kv, poll, cancelled>>
    /\ UNCHANGED <<pvars, avars>>

\* HandleDocument: marshal the document and Store it under result:<taskId>.
HandleStore(t) ==
    /\ hpc[t] = "store"
    /\ \E ok \in BOOLEAN :
        IF ok
        THEN /\ blobs' = [blobs EXCEPT ![ResultKey(t)] =
                    [present |-> TRUE, lastModified |-> now, taskId |-> t]]
             /\ resultStored' = [resultStored EXCEPT ![t] = TRUE]
             /\ hpc' = [hpc EXCEPT ![t] = "save"]
             /\ UNCHANGED <<broker, beacon>>
        ELSE /\ HandlerFailed(t, "failed to store result")
             /\ UNCHANGED <<blobs, resultStored>>
    /\ UNCHANGED <<now, horizon, queuePriority, ingest, fileId, kv, poll, cancelled>>
    /\ UNCHANGED <<pvars, avars>>

\* HandleDocument: best-effort SaveFinalStatus(completed, 1.0); returns nil.
HandleSave(t) ==
    /\ hpc[t] = "save"
    /\ \E ok \in BOOLEAN :
        kv' = IF ok THEN [kv EXCEPT ![t] = Saved("completed", 100, "")] ELSE kv
    /\ hpc' = [hpc EXCEPT ![t] = "ret"]
    /\ UNCHANGED <<now, horizon, queuePriority, ingest, fileId, broker, blobs, resultStored, beacon, poll, cancelled>>
    /\ UNCHANGED <<pvars, avars>>

\* handleDocumentProcess returns nil: "completed" beacon; the broker marks the
\* task done, and with no retention option the task leaves the broker.
HandleReturn(t) ==
    /\ hpc[t] = "ret"
    /\ beacon' = [beacon EXCEPT ![t] = "completed"]
    /\ broker' = [broker EXCEPT ![t] = NoTask]
    /\ hpc' = [hpc EXCEPT ![t] = "idle"]
    /\ UNCHANGED <<now, horizon, queuePriority, ingest, fileId, kv, blobs, resultStored, poll, cancelled>>
    /\ UNCHANGED <<pvars, avars>>

\* ------------------------------------------------------- status projection
\* GetTaskStatus: redis Get. A hit is returned as it is; a miss goes on to
\* probe the queues. Clients know the task id once ProcessFile has returned.
PollGet(t) ==
    /\ ingest[t] = "done"
    /\ poll.pc = "idle"
    /\ poll' = IF kv[t].status # "none" THEN poll
               ELSE [pc |-> "probe", task |-> t, status |-> NoStatus]
    /\ UNCHANGED <<now, horizon, queuePriority, ingest, fileId, broker, kv, blobs, hpc, resultStored, beacon, cancelled>>
    /\ UNCHANGED <<pvars, avars>>

\* GetTaskStatus: the probe of critical, default, low and the projection.
PollProbe ==
    /\ poll.pc = "probe"
    /\ LET r == ProbeQueues(poll.task)
       IN  poll' = IF r.err THEN NoPoll
                   ELSE [pc |-> "write", task |-> poll.task, status |-> r.status]
    /\ UNCHANGED <<now, horizon, queuePriority, ingest, fileId, broker, kv, blobs, hpc, resultStored, beacon, cancelled>>
    /\ UNCHANGED <<pvars, avars>>

\* GetTaskStatus: the projected status is written back to the KV.
PollWrite ==
    /\ poll.pc = "write"
    /\ \E ok \in BOOLEAN :
        kv' = IF ok
              THEN [kv EXCEPT ![poll.task] = [poll.status EXCEPT !.at = now]]
              ELSE kv
    /\ poll' = NoPoll
    /\ UNCHANGED <<now, horizon, queuePriority, ingest, fileId, broker, blobs, hpc, resultStored, beacon, cancelled>>
    /\ UNCHANGED <<pvars, avars>>

\* ------------------------------------------------------------ cancellation
\* inspector.DeleteTask(queue, id): deletes a task that is in this queue and
\* is not being processed.
DeleteTaskOk(q, t) ==
    /\ broker[t].queue = q
    /\ broker[t].state \in {"scheduled", "pending", "retry", "archived"}

\* CancelTask returning nil after the loop even when no DeleteTask succeeded.
CancelTaskAlwaysNil(t) ==
    /\ ingest[t] = "done"
    /\ broker' = IF \E i \in 1..Len(Queues) : DeleteTaskOk(Queues[i], t)
                 THEN [broker EXCEPT ![t] = NoTask] ELSE broker
    /\ cancelled' = cancelled \cup {t}
    /\ UNCHANGED <<now, horizon, queuePriority, ingest, fileId, kv, blobs, hpc, resultStored, beacon, poll>>
    /\ UNCHANGED <<pvars, avars>>

\* CancelTask: DeleteTask in critical, default, low until one succeeds.
CancelTask(t) ==
    /\ ingest[t] = "done"
    /\ IF \E i \in 1..Len(Queues) : DeleteTaskOk(Queues[i], t)
       THEN /\ broker' = [broker EXCEPT ![t] = NoTask]
            /\ cancelled' = cancelled \cup {t}
       ELSE UNCHANGED <<broker, cancelled>>
    /\ UNCHANGED <<now, horizon, queuePriority, ingest, fileId, kv, blobs, hpc, resultStored, beacon, poll>>
    /\ UNCHANGED <<pvars, avars>>

\* --------------------------------------------------------- time, retention
\* Time passes.
Tick ==
    /\ now < MaxClock
    /\ now' = now + 1
    /\ UNCHANGED <<horizon, queuePriority, ingest, fileId, broker, kv, blobs, hpc, resultStored, beacon, poll, cancelled>>
    /\ UNCHANGED <<pvars, avars>>

\* 24h have passed since the writes stamped `horizon`: the KV drops the
\* entries written then (TTL 24h).
Expire ==
    /\ horizon < now
    /\ horizon' = horizon + 1
    /\ kv' = [t \in Tasks |-> IF kv[t].status # "none" /\ kv[t].at < horizon + 1
                              THEN NoStatus ELSE kv[t]]
    /\ UNCHANGED <<now, queuePriority, ingest, fileId, broker, blobs, hpc, resultStored, beacon, poll, cancelled>>
    /\ UNCHANGED <<pvars, avars>>

\* CleanupTasks -> storage.CleanupBefore(now - RetentionPeriod): every object
\* last modified before the threshold is deleted; a failed delete is skipped.
CleanupTasks ==
    LET threshold == horizon
        expired == {k \in BlobKeys : blobs[k].present /\ blobs[k].lastModified < threshold}
    IN  /\ \E failed \in SUBSET expired :
            blobs' = [k \in BlobKeys |-> IF k \in expired \ failed THEN NoBlob ELSE blobs[k]]
        /\ UNCHANGED <<now, horizon, queuePriority, ingest, fileId, broker, kv, hpc, resultStored, beacon, poll, cancelled>>
        /\ UNCHANGED <<pvars, avars>>

\* ------------------------------------------------------------------- Next
Next ==
    \/ \E t \in Tasks : ProcessFileStore(t)
    \/ \E t \in Tasks : ProcessFileEnqueue(t)
    \/ \E t \in Tasks : ProcessFileSaveStatus(t)
    \/ \E t \in Tasks : Forward(t)
    \/ \E t \in Tasks : Dequeue(t)
    \/ \E t \in Tasks : HandleBegin(t)
    \/ \E t \in Tasks : HandleGet(t)
    \/ \E t \in Tasks : HandleProcess(t)
    \/ \E t \in Tasks : HandleCtxCancelled(t)
    \/ \E t \in Tasks : HandleStore(t)
    \/ \E t \in Tasks : HandleSave(t)
    \/ \E t \in Tasks : HandleReturn(t)
    \/ \E t \in Tasks : PollGet(t)
    \/ PollProbe
    \/ PollWrite
    \/ \E t \in Tasks : CancelTask(t)
    \/ Tick
    \/ Expire
    \/ CleanupTasks

Spec == Init /\ [][Next]_vars

\* --------------------------------------------------- concurrent uploads
\* Several ProcessFile calls (HTTP requests) run concurrently with the worker;
\* each creates its own task, and their headers can carry the same filename.
NumUploads == 2

Uploads == 1..NumUploads

\* The ServiceConfig literal of GetService: QueuePriority is not among its
\* fields, so it has the zero value of int.
GetServiceConfig == [MaxFileSize |-> MaxFileSize, AllowedTypes |-> AllowedTypes,
                     QueuePriority |-> 0]

\* The service is the one GetService builds.
UploadsInit ==
    /\ now = 0
    /\ horizon = 0
    /\ queuePriority = GetServiceConfig.QueuePriority
    /\ ingest = [t \in Uploads |-> "idle"]
    /\ fileId = [t \in Uploads |-> ""]
    /\ broker = [t \in Uploads |-> NoTask]
    /\ kv = [t \in Uploads |-> NoStatus]
    /\ blobs = [k \in {FileKey(f) : f \in Filenames} \cup {ResultKey(t) : t \in Uploads} |-> NoBlob]
    /\ hpc = [t \in Uploads |-> "idle"]
    /\ resultStored = [t \in Uploads |-> FALSE]
    /\ beacon = [t \in Uploads |-> ""]
    /\ poll = NoPoll
    /\ cancelled = {}

NextUploads ==
    \/ \E t \in Uploads : ProcessFileStore(t)
    \/ \E t \in Uploads : ProcessFileEnqueue(t)
    \/ \E t \in Uploads : ProcessFileSaveStatus(t)
    \/ \E t \in Uploads : Forward(t)
    \/ \E t \in Uploads : Dequeue(t)
    \/ \E t \in Uploads : HandleBegin(t)
    \/ \E t \in Uploads : HandleGet(t)
    \/ \E t \in Uploads : HandleProcess(t)
    \/ \E t \in Uploads : HandleStore(t)
    \/ \E t \in Uploads : HandleSave(t)
    \/ \E t \in Uploads : HandleReturn(t)

InitUploads == UploadsInit /\ PdfIdle /\ AuxIdle

SpecUploads == InitUploads /\ [][NextUploads]_vars

\* =========================================================== PDF extractor
\* Processor.Process on one stored document, then JSONConverter.Convert, as
\* HandleDocument calls them; the handler is invoked MaxRuns times on the same
\* stored bytes (the broker's retry).
MaxPages == 3
MaxRuns == 2
MaxWorkers == 4

PageKinds == {"text", "null", "bad"}

\* The documents fed to the extractor: every page has text, is a null page,
\* or makes GetPlainText fail.
PdfInputs == UNION {[1..n -> PageKinds] : n \in 0..MaxPages}

numPages == Len(pdf)

\* The chunk a page worker builds for page i.
PageChunk(i) == [content |-> i, page |-> i, section |-> <<"page", i>>]

\* The derived errgroup context: cancelled with its parent, on the first
\* error of a page worker, and when Wait has returned.
CtxDone == parentCancelled \/ gerr # "" \/ chanClosed

\* The error a page worker returns when GetPlainText fails on page i.
PageError(i) == "failed to get text from page " \o ToString(i)

\* errgroup: only the first non-nil error is kept.
FirstError(e) == IF gerr = "" THEN e ELSE gerr

\* cleanText.
cleanText(text) == text

\* postProcessChunks.
postProcessChunks(cs) ==
    [k \in 1..Len(cs) |-> [content |-> cleanText(cs[k].content),
                           page |-> cs[k].page, section |-> cs[k].section]]

\* The orders in which ranging over a Go map can yield the keys in S.
MapOrders(S) ==
    {o \in [1..Cardinality(S) -> S] : \A a, b \in 1..Cardinality(S) : o[a] = o[b] => a = b}

\* chunk.Metadata[f], "" when the chunk carries no such key.
MetaOf(c, f) == IF f \in DOMAIN c THEN c[f] ELSE ""

RECURSIVE totalConfidence(_, _)
\* totalConfidence after the loop has gone through chunks 1..n: only a chunk
\* carrying "confidence" adds to it.
totalConfidence(cs, n) ==
    IF n = 0 THEN 0
    ELSE totalConfidence(cs, n - 1)
         + (IF "confidence" \in DOMAIN cs[n] THEN cs[n].confidence ELSE 0)

\* Convert numbering a chunk by its page instead of its index in the input.
ConvertPositionFromPage(cs, order) ==
    [err |-> "",
     content |-> [k \in 1..Len(cs) |->
                    [text |-> cs[k].content, position |-> cs[k].page, type |-> "",
                     page |-> MetaOf(cs[k], "page"), section |-> MetaOf(cs[k], "section")]],
     sections |-> order,
     confidence |-> [num |-> totalConfidence(cs, Len(cs)), den |-> Len(cs)]]

\* JSONConverter.Convert on a non-empty chunk sequence; `order` is the order
\* in which the range over the sections map yields them. metadata.confidence
\* is the quotient num / den of two numbers kept apart here.
Convert(cs, order) ==
    [err |-> "",
     content |-> [k \in 1..Len(cs) |->
                    [text |-> cs[k].content, position |-> k, type |-> "",
                     page |-> MetaOf(cs[k], "page"), section |-> MetaOf(cs[k], "section")]],
     sections |-> order,
     confidence |-> [num |-> totalConfidence(cs, Len(cs)), den |-> Len(cs)]]

\* Process is entered: the state of one call.
PdfEnter(input, r, ds) ==
    /\ pdf = input
    /\ run = r
    /\ spawned = 0
    /\ wpc = [i \in 1..Len(input) |-> "unspawned"]
    /\ sem = 0
    /\ chunkChan = <<>>
    /\ chanClosed = FALSE
    /\ gerr = ""
    /\ parentCancelled = FALSE
    /\ chunks = <<>>
    /\ cpc = "spawn"
    /\ result = [err |-> "", chunks |-> <<>>]
    /\ docs = ds

PdfInit == \E input \in PdfInputs : PdfEnter(input, 1, <<>>)

\* The loop of Process: g.Go starts the worker of the next page.
Spawn ==
    /\ cpc = "spawn"
    /\ spawned < numPages
    /\ spawned' = spawned + 1
    /\ wpc' = [wpc EXCEPT ![spawned + 1] = "wait"]
    /\ UNCHANGED <<pdf, run, sem, chunkChan, chanClosed, gerr, parentCancelled, chunks, cpc, result, docs>>
    /\ UNCHANGED <<lvars, avars>>

\* The loop is over: the barrier goroutine is started and the collector
\* begins to range over chunkChan.
SpawnDone ==
    /\ cpc = "spawn"
    /\ spawned = numPages
    /\ cpc' = "collect"
    /\ UNCHANGED <<pdf, run, spawned, wpc, sem, chunkChan, chanClosed, gerr, parentCancelled, chunks, result, docs>>
    /\ UNCHANGED <<lvars, avars>>

\* A page worker going on without a free slot of the semaphore.
WorkerAcquireNoLimit(i) ==
    /\ wpc[i] = "wait"
    /\ sem' = sem + 1
    /\ wpc' = [wpc EXCEPT ![i] = "run"]
    /\ UNCHANGED <<pdf, run, spawned, chunkChan, chanClosed, gerr, parentCancelled, chunks, cpc, result, docs>>
    /\ UNCHANGED <<lvars, avars>>

\* Page worker, first select: a slot of the semaphore is taken.
WorkerAcquire(i) ==
    /\ wpc[i] = "wait"
    /\ sem < MaxWorkers
    /\ sem' = sem + 1
    /\ wpc' = [wpc EXCEPT ![i] = "run"]
    /\ UNCHANGED <<pdf, run, spawned, chunkChan, chanClosed, gerr, parentCancelled, chunks, cpc, result, docs>>
    /\ UNCHANGED <<lvars, avars>>

\* Page worker, first select: ctx.Done() wins; the worker returns ctx.Err().
WorkerCancelWait(i) ==
    /\ wpc[i] = "wait"
    /\ CtxDone
    /\ wpc' = [wpc EXCEPT ![i] = "done"]
    /\ gerr' = FirstError("context canceled")
    /\ UNCHANGED <<pdf, run, spawned, sem, chunkChan, chanClosed, parentCancelled, chunks, cpc, result, docs>>
    /\ UNCHANGED <<lvars, avars>>

\* Page worker holding a slot: a null page returns nil, a failing
\* GetPlainText returns its error, otherwise the chunk is built. The
\* deferred release of the slot runs when the worker returns.
WorkerExtract(i) ==
    /\ wpc[i] = "run"
    /\ IF pdf[i] = "null"
       THEN /\ wpc' = [wpc EXCEPT ![i] = "done"]
            /\ sem' = sem - 1
            /\ UNCHANGED gerr
       ELSE IF pdf[i] = "bad"
       THEN /\ wpc' = [wpc EXCEPT ![i] = "done"]
            /\ sem' = sem - 1
            /\ gerr' = FirstError(PageError(i))
       ELSE /\ wpc' = [wpc EXCEPT ![i] = "send"]
            /\ UNCHANGED <<sem, gerr>>
    /\ UNCHANGED <<pdf, run, spawned, chunkChan, chanClosed, parentCancelled, chunks, cpc, result, docs>>
    /\ UNCHANGED <<lvars, avars>>

\* Page worker, second select: the chunk goes into chunkChan.
WorkerSend(i) ==
    /\ wpc[i] = "send"
    /\ Len(chunkChan) < numPages
    /\ chunkChan' = Append(chunkChan, PageChunk(i))
    /\ wpc' = [wpc EXCEPT ![i] = "done"]
    /\ sem' = sem - 1
    /\ UNCHANGED <<pdf, run, spawned, chanClosed, gerr, parentCancelled, chunks, cpc, result, docs>>
    /\ UNCHANGED <<lvars, avars>>

\* Page worker, second select: ctx.Done() wins; the chunk is dropped.
WorkerCancelSend(i) ==
    /\ wpc[i] = "send"
    /\ CtxDone
    /\ wpc' = [wpc EXCEPT ![i] = "done"]
    /\ sem' = sem - 1
    /\ gerr' = FirstError("context canceled")
    /\ UNCHANGED <<pdf, run, spawned, chunkChan, chanClosed, parentCancelled, chunks, cpc, result, docs>>
    /\ UNCHANGED <<lvars, avars>>

\* A barrier that closes chunkChan without waiting for the workers.
CloseChanEarly ==
    /\ cpc = "collect"
    /\ ~chanClosed
    /\ chanClosed' = TRUE
    /\ UNCHANGED <<pdf, run, spawned, wpc, sem, chunkChan, gerr, parentCancelled, chunks, cpc, result, docs>>
    /\ UNCHANGED <<lvars, avars>>

\* The barrier goroutine: g.Wait() returns once every worker has returned,
\* then close(chunkChan).
CloseChan ==
    /\ cpc = "collect"
    /\ ~chanClosed
    /\ \A i \in 1..numPages : wpc[i] = "done"
    /\ chanClosed' = TRUE
    /\ UNCHANGED <<pdf, run, spawned, wpc, sem, chunkChan, gerr, parentCancelled, chunks, cpc, result, docs>>
    /\ UNCHANGED <<lvars, avars>>

\* The collector appends the next chunk of chunkChan.
Collect ==
    /\ cpc = "collect"
    /\ chunkChan # <<>>
    /\ chunks' = Append(chunks, Head(chunkChan))
    /\ chunkChan' = Tail(chunkChan)
    /\ UNCHANGED <<pdf, run, spawned, wpc, sem, chanClosed, gerr, parentCancelled, cpc, result, docs>>
    /\ UNCHANGED <<lvars, avars>>

\* The collector leaving its loop as soon as chunkChan is empty, without
\* waiting for the channel to be closed.
CollectFinishEarly ==
    /\ cpc = "collect"
    /\ chunkChan = <<>>
    /\ result' = IF gerr # "" THEN [err |-> gerr, chunks |-> <<>>]
                 ELSE [err |-> "", chunks |-> postProcessChunks(chunks)]
    /\ cpc' = "done"
    /\ UNCHANGED <<pdf, run, spawned, wpc, sem, chunkChan, chanClosed, gerr, parentCancelled, chunks, docs>>
    /\ UNCHANGED <<lvars, avars>>

\* chunkChan is closed and drained: g.Wait() gives the error, or the chunks
\* are post-processed and returned.
CollectFinish ==
    /\ cpc = "collect"
    /\ chunkChan = <<>>
    /\ chanClosed
    /\ result' = IF gerr # "" THEN [err |-> gerr, chunks |-> <<>>]
                 ELSE [err |-> "", chunks |-> postProcessChunks(chunks)]
    /\ cpc' = "done"
    /\ UNCHANGED <<pdf, run, spawned, wpc, sem, chunkChan, chanClosed, gerr, parentCancelled, chunks, docs>>
    /\ UNCHANGED <<lvars, avars>>

\* The context passed to Process is cancelled.
CtxCancel ==
    /\ cpc \in {"spawn", "collect"}
    /\ ~parentCancelled
    /\ parentCancelled' = TRUE
    /\ UNCHANGED <<pdf, run, spawned, wpc, sem, chunkChan, chanClosed, gerr, chunks, cpc, result, docs>>
    /\ UNCHANGED <<lvars, avars>>

\* HandleDocument after Process: an error is returned as it is; Convert
\* rejects an empty chunk sequence; otherwise the document is built and
\* marshalled for result:<taskId>.
HandleConvert ==
    /\ cpc = "done"
    /\ Len(docs) < run
    /\ IF result.err # ""
       THEN docs' = Append(docs, [err |-> "failed to process document"])
       ELSE IF ConvertError(Len(result.chunks)) # ""
       THEN docs' = Append(docs, [err |-> ConvertError(Len(result.chunks))])
       ELSE \E order \in MapOrders({result.chunks[k].section : k \in 1..Len(result.chunks)}) :
                docs' = Append(docs, Convert(result.chunks, order))
    /\ UNCHANGED <<pdf, run, spawned, wpc, sem, chunkChan, chanClosed, gerr, parentCancelled, chunks, cpc, result>>
    /\ UNCHANGED <<lvars, avars>>

\* The handler is invoked again on the same task and the same stored bytes.
HandleAgain ==
    /\ cpc = "done"
    /\ Len(docs) = run
    /\ run < MaxRuns
    /\ run' = run + 1
    /\ spawned' = 0
    /\ wpc' = [i \in 1..numPages |-> "unspawned"]
    /\ sem' = 0
    /\ chunkChan' = <<>>
    /\ chanClosed' = FALSE
    /\ gerr' = ""
    /\ parentCancelled' = FALSE
    /\ chunks' = <<>>
    /\ cpc' = "spawn"
    /\ result' = [err |-> "", chunks |-> <<>>]
    /\ UNCHANGED <<pdf, docs>>
    /\ UNCHANGED <<lvars, avars>>

NextPdf ==
    \/ Spawn
    \/ SpawnDone
    \/ \E i \in DOMAIN wpc : WorkerAcquire(i)
    \/ \E i \in DOMAIN wpc : WorkerCancelWait(i)
    \/ \E i \in DOMAIN wpc : WorkerExtract(i)
    \/ \E i \in DOMAIN wpc : WorkerSend(i)
    \/ \E i \in DOMAIN wpc : WorkerCancelSend(i)
    \/ CloseChan
    \/ Collect
    \/ CollectFinish
    \/ CtxCancel
    \/ HandleConvert
    \/ HandleAgain

InitPdf == PipelineInit /\ queuePriority = 0 /\ PdfInit /\ AuxIdle

SpecPdf == InitPdf /\ [][NextPdf]_vars

\* ------------------------------------------------ one call on a long document
\* One call of Process on a document with more pages than the semaphore has
\* slots; at most one of its pages is null or unreadable.
MaxWide == 5

ProcessInputs ==
    {input \in UNION {[1..n -> PageKinds] : n \in 0..MaxWide} :
        Cardinality({i \in 1..Len(input) : input[i] # "text"}) <= 1}

\* The steps Process and its goroutines take by themselves.
ProcessStep ==
    \/ Spawn
    \/ SpawnDone
    \/ \E i \in 1..numPages : WorkerAcquire(i)
    \/ \E i \in 1..numPages : WorkerCancelWait(i)
    \/ \E i \in 1..numPages : WorkerExtract(i)
    \/ \E i \in 1..numPages : WorkerSend(i)
    \/ \E i \in 1..numPages : WorkerCancelSend(i)
    \/ CloseChan
    \/ Collect
    \/ CollectFinish

NextProcess ==
    \/ ProcessStep
    \/ CtxCancel

InitProcess ==
    /\ PipelineInit /\ queuePriority = 0
    /\ \E input \in ProcessInputs : PdfEnter(input, 1, <<>>)
    /\ AuxIdle

\* A goroutine that can run is run; nobody is required to cancel.
SpecProcess == InitProcess /\ [][NextProcess]_vars /\ WF_vars(ProcessStep)

\* ======================================================= worker and queues
\* The worker's server consumes critical, default and low with the weights
\* 6, 3, 1 and no strict priority: for every dequeue the broker library
\* orders the queues by a weighted shuffle and takes the first task of the
\* first queue in that order that is not empty, so any non-empty queue can be
\* the one served.
MaxBacklog == 11

\* MaxBacklog tasks have been enqueued at each of the three priorities.
WorkerInit ==
    /\ waiting = [i \in 1..Len(Queues) |-> MaxBacklog]
    /\ inflight = 0
    /\ lowEarly = 0

\* A free worker slot takes the next task of queue Queues[i].
WorkerDequeue(i) ==
    /\ inflight < Concurrency
    /\ waiting[i] > 0
    /\ waiting' = [waiting EXCEPT ![i] = waiting[i] - 1]
    /\ inflight' = inflight + 1
    /\ lowEarly' = IF Queues[i] = "low" /\ waiting[1] > 0 THEN lowEarly + 1 ELSE lowEarly
    /\ UNCHANGED <<lvars, pvars, xvars, qvars, bvars, fvars>>

\* A handler returns: its slot is free again.
WorkerFinish ==
    /\ inflight > 0
    /\ inflight' = inflight - 1
    /\ UNCHANGED <<waiting, lowEarly>>
    /\ UNCHANGED <<lvars, pvars, xvars, qvars, bvars, fvars>>

NextWorker ==
    \/ \E i \in 1..Len(Queues) : WorkerDequeue(i)
    \/ WorkerFinish

InitWorker ==
    /\ PipelineInit /\ queuePriority = 0 /\ PdfIdle
    /\ WorkerInit /\ QueueIdle /\ BatchIdle /\ FactoryInit /\ ExtraIdle

SpecWorker == InitWorker /\ [][NextWorker]_vars

\* ======================================================== enqueue by task id
\* Enqueue without the MaxRetry(3) option: the broker's default of 25 applies.
QueueEnqueueDefaultRetry(id, p) ==
    LET q == QueueOf(p)
    IN  /\ \E ok \in BOOLEAN :
            IF ok /\ qtask[q][id].state = "none"
            THEN qtask' = [qtask EXCEPT ![q][id] =
                    [state |-> "scheduled", retried |-> 0, attempts |-> 0, maxRetry |-> 25]]
            ELSE UNCHANGED qtask
        /\ UNCHANGED <<lvars, pvars, xvars, wvars, bvars, fvars>>

\* AsynqQueue.Enqueue with the id and the priority the caller puts into the
\* Task. The broker keeps a task under its queue and its id: an id that is
\* taken in the target queue is a conflict.
QueueEnqueue(id, p) ==
    LET q == QueueOf(p)
    IN  /\ \E ok \in BOOLEAN :
            IF ok /\ qtask[q][id].state = "none"
            THEN qtask' = [qtask EXCEPT ![q][id] =
                    [state |-> "scheduled", retried |-> 0, attempts |-> 0, maxRetry |-> MaxRetry]]
            ELSE UNCHANGED qtask
        /\ UNCHANGED <<lvars, pvars, xvars, wvars, bvars, fvars>>

\* The forwarder: a scheduled or retry task becomes pending when it is due.
QueueForward(q, id) ==
    /\ qtask[q][id].state \in {"scheduled", "retry"}
    /\ qtask' = [qtask EXCEPT ![q][id].state = "pending"]
    /\ UNCHANGED <<lvars, pvars, xvars, wvars, bvars, fvars>>

\* A worker slot takes the task: one more invocation of the handler.
QueueDequeue(q, id) ==
    /\ qtask[q][id].state = "pending"
    /\ Cardinality({x \in QueueNames \X Tasks : qtask[x[1]][x[2]].state = "active"}) < Concurrency
    /\ qtask' = [qtask EXCEPT ![q][id].state = "active",
                              ![q][id].attempts = qtask[q][id].attempts + 1]
    /\ UNCHANGED <<lvars, pvars, xvars, wvars, bvars, fvars>>

\* The handler returns an error: retry while retries are left, else archive.
QueueHandlerError(q, id) ==
    /\ qtask[q][id].state = "active"
    /\ qtask' = [qtask EXCEPT ![q][id] =
            IF qtask[q][id].retried < qtask[q][id].maxRetry
            THEN [@ EXCEPT !.state = "retry", !.retried = @ + 1]
            ELSE [@ EXCEPT !.state = "archived"]]
    /\ UNCHANGED <<lvars, pvars, xvars, wvars, bvars, fvars>>

\* The handler returns nil: the task is done and leaves the broker.
QueueHandlerOk(q, id) ==
    /\ qtask[q][id].state = "active"
    /\ qtask' = [qtask EXCEPT ![q][id] = NoQTask]
    /\ UNCHANGED <<lvars, pvars, xvars, wvars, bvars, fvars>>

NextQueue ==
    \/ \E id \in Tasks, p \in Priorities : QueueEnqueue(id, p)
    \/ \E q \in QueueNames, id \in Tasks : QueueForward(q, id)
    \/ \E q \in QueueNames, id \in Tasks : QueueDequeue(q, id)
    \/ \E q \in QueueNames, id \in Tasks : QueueHandlerError(q, id)
    \/ \E q \in QueueNames, id \in Tasks : QueueHandlerOk(q, id)

InitQueue ==
    /\ PipelineInit /\ queuePriority = 0 /\ PdfIdle
    /\ WorkerIdle /\ QueueIdle /\ BatchIdle /\ FactoryInit /\ ExtraIdle

SpecQueue == InitQueue /\ [][NextQueue]_vars

\* =========================================================== ProcessBatch
\* One call of ProcessBatch: a goroutine per file under one errgroup; the
\* goroutines share nothing but the tasks slice (under mu) and the errgroup.
MaxFiles == 3

BatchHeaders == {header \in Headers : header.size = 1}
BatchInputs == UNION {[1..n -> BatchHeaders] : n \in 1..MaxFiles}

\* ProcessBatch is entered with some list of files.
BatchInit ==
    /\ files \in BatchInputs
    /\ batchPc = "spawn"
    /\ filePc = [i \in 1..Len(files) |-> "unspawned"]
    /\ fileRes = [i \in 1..Len(files) |-> ""]
    /\ mu = 0
    /\ seen = [i \in 1..Len(files) |-> <<>>]
    /\ batchTasks = <<>>
    /\ batchErr = ""
    /\ batchRet = [tasks |-> <<>>, err |-> ""]

\* The loop over files: g.Go starts the goroutine of the next file.
BatchSpawn ==
    /\ batchPc = "spawn"
    /\ \E i \in 1..Len(files) :
        /\ filePc[i] = "unspawned"
        /\ \A j \in 1..(i - 1) : filePc[j] # "unspawned"
        /\ filePc' = [filePc EXCEPT ![i] = "run"]
    /\ UNCHANGED <<files, batchPc, fileRes, mu, seen, batchTasks, batchErr, batchRet>>
    /\ UNCHANGED <<lvars, pvars, xvars, wvars, qvars, fvars>>

\* The loop is over: ProcessBatch blocks in g.Wait().
BatchSpawnDone ==
    /\ batchPc = "spawn"
    /\ \A i \in 1..Len(files) : filePc[i] # "unspawned"
    /\ batchPc' = "wait"
    /\ UNCHANGED <<files, filePc, fileRes, mu, seen, batchTasks, batchErr, batchRet>>
    /\ UNCHANGED <<lvars, pvars, xvars, wvars, qvars, fvars>>

\* The goroutine of file i: header.Open and ProcessFile under the group's
\* context. An error (open, validation, store, enqueue, a cancelled context)
\* is returned to the errgroup, which keeps the first one and cancels the
\* context; a task goes on to the append.
BatchProcessFile(i) ==
    /\ filePc[i] = "run"
    /\ \E ok \in BOOLEAN :
        IF ok /\ validateFile(files[i]) = ""
        THEN /\ fileRes' = [fileRes EXCEPT ![i] = "task"]
             /\ filePc' = [filePc EXCEPT ![i] = "lock"]
             /\ UNCHANGED batchErr
        ELSE /\ fileRes' = [fileRes EXCEPT ![i] = "error"]
             /\ filePc' = [filePc EXCEPT ![i] = "done"]
             /\ batchErr' = IF batchErr = "" THEN <<"failed to process file", i>> ELSE batchErr
    /\ UNCHANGED <<files, batchPc, mu, seen, batchTasks, batchRet>>
    /\ UNCHANGED <<lvars, pvars, xvars, wvars, qvars, fvars>>

\* The append without mu.Lock().
BatchLockNoMutex(i) ==
    /\ filePc[i] = "lock"
    /\ mu' = i
    /\ filePc' = [filePc EXCEPT ![i] = "read"]
    /\ UNCHANGED <<files, batchPc, fileRes, seen, batchTasks, batchErr, batchRet>>
    /\ UNCHANGED <<lvars, pvars, xvars, wvars, qvars, fvars>>

\* mu.Lock().
BatchLock(i) ==
    /\ filePc[i] = "lock"
    /\ mu = 0
    /\ mu' = i
    /\ filePc' = [filePc EXCEPT ![i] = "read"]
    /\ UNCHANGED <<files, batchPc, fileRes, seen, batchTasks, batchErr, batchRet>>
    /\ UNCHANGED <<lvars, pvars, xvars, wvars, qvars, fvars>>

\* append(tasks, task): the slice is read ...
BatchAppendRead(i) ==
    /\ filePc[i] = "read"
    /\ seen' = [seen EXCEPT ![i] = batchTasks]
    /\ filePc' = [filePc EXCEPT ![i] = "write"]
    /\ UNCHANGED <<files, batchPc, fileRes, mu, batchTasks, batchErr, batchRet>>
    /\ UNCHANGED <<lvars, pvars, xvars, wvars, qvars, fvars>>

\* ... and assigned with the task added; mu.Unlock(); the goroutine returns nil.
BatchAppendWrite(i) ==
    /\ filePc[i] = "write"
    /\ batchTasks' = Append(seen[i], i)
    /\ seen' = [seen EXCEPT ![i] = <<>>]
    /\ mu' = 0
    /\ filePc' = [filePc EXCEPT ![i] = "done"]
    /\ UNCHANGED <<files, batchPc, fileRes, batchErr, batchRet>>
    /\ UNCHANGED <<lvars, pvars, xvars, wvars, qvars, fvars>>

\* g.Wait() returns when every goroutine has returned: ProcessBatch returns
\* the tasks slice with the group's error.
BatchReturn ==
    /\ batchPc = "wait"
    /\ \A i \in 1..Len(files) : filePc[i] = "done"
    /\ batchRet' = [tasks |-> batchTasks, err |-> batchErr]
    /\ batchPc' = "returned"
    /\ UNCHANGED <<files, filePc, fileRes, mu, seen, batchTasks, batchErr>>
    /\ UNCHANGED <<lvars, pvars, xvars, wvars, qvars, fvars>>

NextBatch ==
    \/ BatchSpawn
    \/ BatchSpawnDone
    \/ \E i \in DOMAIN filePc : BatchProcessFile(i)
    \/ \E i \in DOMAIN filePc : BatchLock(i)
    \/ \E i \in DOMAIN filePc : BatchAppendRead(i)
    \/ \E i \in DOMAIN filePc : BatchAppendWrite(i)
    \/ BatchReturn

InitBatch ==
    /\ PipelineInit /\ queuePriority = 0 /\ PdfIdle
    /\ WorkerIdle /\ QueueIdle /\ BatchInit /\ FactoryInit /\ ExtraIdle

SpecBatch == InitBatch /\ [][NextBatch]_vars

\* ======================================================= processor factory
MaxLookups == 3

\* The type strings handed to GetProcessor: extensions and MIME types.
FileTypes == {".pdf", ".PDF", ".doc", ".jpeg", ".exe",
              "application/pdf", "image/jpg", "application/msword"}

\* extToMIME.
extToMIME ==
    (".jpg" :> "image/jpeg") @@ (".jpeg" :> "image/jpeg") @@ (".png" :> "image/png") @@
    (".tiff" :> "image/tiff") @@ (".pdf" :> "application/pdf") @@
    (".doc" :> "application/msword") @@
    (".docx" :> "application/vnd.openxmlformats-officedocument.wordprocessingml.document")

\* The processors NewProcessorFactory registers, by MIME type.
processors ==
    ("application/pdf" :> "pdfProcessor") @@ ("image/jpeg" :> "textractProcessor") @@
    ("image/jpg" :> "textractProcessor") @@ ("image/png" :> "textractProcessor") @@
    ("image/tiff" :> "textractProcessor")

\* GetProcessor: the lower-cased type is looked up in extToMIME, the MIME
\* type found there in processors.
GetProcessor(fileType) ==
    IF ToLower(fileType) \notin DOMAIN extToMIME
    THEN [processor |-> "", err |-> "unsupported file type"]
    ELSE LET mimeType == extToMIME[ToLower(fileType)]
         IN  IF mimeType \notin DOMAIN processors
             THEN [processor |-> "", err |-> "no processor found for mime type"]
             ELSE [processor |-> processors[mimeType], err |-> ""]

\* GetProcessor is called with some type string.
GetProcessorCall(fileType) ==
    /\ Len(lookups) < MaxLookups
    /\ lookups' = Append(lookups, [fileType |-> fileType, res |-> GetProcessor(fileType)])
    /\ UNCHANGED <<lvars, pvars, xvars, wvars, qvars, bvars>>

NextFactory == \E fileType \in FileTypes : GetProcessorCall(fileType)

InitFactory ==
    /\ PipelineInit /\ queuePriority = 0 /\ PdfIdle
    /\ WorkerIdle /\ QueueIdle /\ BatchIdle /\ FactoryInit /\ ExtraIdle

SpecFactory == InitFactory /\ [][NextFactory]_vars

\* ========================================================= image extractor
\* Image tasks go through image Processor.Process concurrently (one handler
\* goroutine each) and share the pool of vision clients; HandleDocument then
\* hands the chunks to Convert.
NumImages == 2
MaxPoolSize == 4

ImgTasks == 1..NumImages

\* avgConfidence of postProcessOCR: 0 when no box passed the filter.
Confidences == {0, 80}

\* The chunk built from the OCR text.
OCRChunk(c) == [content |-> "ocr", source |-> "tesseract", confidence |-> c,
                regions |-> <<>>]

\* The chunk built from the vision model's answer.
OllamaChunk(text) == [content |-> text, source |-> "ollama", model |-> "llama3.2-vision"]

NoImg == [pc |-> "start", ctxDone |-> FALSE, conf |-> 0, held |-> FALSE, nilClient |-> FALSE,
          vision |-> "", ollamaText |-> "", chunks |-> <<>>, err |-> "",
          doc |-> [err |-> ""]]

\* The pool is built with MaxPoolSize clients; the tasks have been dequeued.
ImageInit ==
    /\ ollamaConfig \in [Enabled : BOOLEAN, MaxPoolSize : {1, MaxPoolSize}]
    /\ ollamaPool = ollamaConfig.MaxPoolSize
    /\ img = [i \in ImgTasks |-> NoImg]
    /\ poolShut = [closed |-> FALSE, closedClients |-> 0]

\* Process up to the end of the OCR: any of the steps before it fails and
\* Process returns the error, or the OCR gives a text with its confidence.
ImgOCR(i) ==
    /\ img[i].pc = "start"
    /\ \/ img' = [img EXCEPT ![i].pc = "done", ![i].err = "failed to decode image"]
       \/ \E c \in Confidences :
            img' = [img EXCEPT ![i].conf = c,
                               ![i].pc = IF ollamaConfig.Enabled THEN "get" ELSE "merge",
                               ![i].vision = IF ollamaConfig.Enabled THEN "" ELSE "off"]
    /\ UNCHANGED <<ollamaConfig, ollamaPool>>
    /\ UNCHANGED <<lvars, pvars, wvars, qvars, bvars, fvars, cvars, svars, hvars, poolShut>>

\* Get that builds a new client when none is idle.
ImgGetClientFresh(i) ==
    /\ img[i].pc \in {"get", "parked"}
    /\ ollamaPool' = IF ollamaPool > 0 THEN ollamaPool - 1 ELSE 0
    /\ img' = [img EXCEPT ![i].pc = "analyze", ![i].held = TRUE]
    /\ UNCHANGED ollamaConfig
    /\ UNCHANGED <<lvars, pvars, wvars, qvars, bvars, fvars, cvars, svars, hvars, poolShut>>

\* OllamaClientPool.Get: the select receives a client.
ImgGetClient(i) ==
    /\ img[i].pc \in {"get", "parked"}
    /\ ollamaPool > 0
    /\ ollamaPool' = ollamaPool - 1
    /\ img' = [img EXCEPT ![i].pc = "analyze", ![i].held = TRUE]
    /\ UNCHANGED ollamaConfig
    /\ UNCHANGED <<lvars, pvars, wvars, qvars, bvars, fvars, cvars, svars, hvars, poolShut>>

\* OllamaClientPool.Get: no case of the select is ready, the goroutine waits.
ImgGetPark(i) ==
    /\ img[i].pc = "get"
    /\ ollamaPool = 0
    /\ ~poolShut.closed
    /\ ~img[i].ctxDone
    /\ img' = [img EXCEPT ![i].pc = "parked"]
    /\ UNCHANGED <<ollamaConfig, ollamaPool>>
    /\ UNCHANGED <<lvars, pvars, wvars, qvars, bvars, fvars, cvars, svars, hvars, poolShut>>

\* Get that turns an elapsed PoolTimeout into an error of Process.
ImgGetTimeoutFatal(i) ==
    /\ img[i].pc = "parked"
    /\ img' = [img EXCEPT ![i].pc = "done", ![i].vision = "timeout",
                          ![i].err = "timeout waiting for available client"]
    /\ UNCHANGED <<ollamaConfig, ollamaPool>>
    /\ UNCHANGED <<lvars, pvars, wvars, qvars, bvars, fvars, cvars, svars, hvars, poolShut>>

\* OllamaClientPool.Get: PoolTimeout elapses while the goroutine waits; the
\* error is logged and Process goes on without a vision text.
ImgGetTimeout(i) ==
    /\ img[i].pc = "parked"
    /\ img' = [img EXCEPT ![i].pc = "merge", ![i].vision = "timeout"]
    /\ UNCHANGED <<ollamaConfig, ollamaPool>>
    /\ UNCHANGED <<lvars, pvars, wvars, qvars, bvars, fvars, cvars, svars, hvars, poolShut>>

\* OllamaClientPool.Get: the select takes ctx.Done(); logged, no vision text.
ImgGetCancelled(i) ==
    /\ img[i].pc \in {"get", "parked"}
    /\ img[i].ctxDone
    /\ img' = [img EXCEPT ![i].pc = "merge", ![i].vision = "cancelled"]
    /\ UNCHANGED <<ollamaConfig, ollamaPool>>
    /\ UNCHANGED <<lvars, pvars, wvars, qvars, bvars, fvars, cvars, svars, hvars, poolShut>>

\* AnalyzeImage returns: an error (the only outcome once the context is
\* cancelled), which is logged, or the model's answer, which can be empty.
ImgAnalyze(i) ==
    /\ img[i].pc = "analyze"
    /\ \/ img' = [img EXCEPT ![i].pc = "merge", ![i].vision = "failed"]
       \/ /\ ~img[i].ctxDone
          /\ ~img[i].nilClient
          /\ \E text \in {"", "a table"} :
               img' = [img EXCEPT ![i].pc = "merge", ![i].vision = "ok",
                                  ![i].ollamaText = text]
    /\ UNCHANGED <<ollamaConfig, ollamaPool>>
    /\ UNCHANGED <<lvars, pvars, wvars, qvars, bvars, fvars, cvars, svars, hvars, poolShut>>

\* The chunks are put together and Process returns; the deferred Put gives
\* the client back unless the channel is full.
ImgReturn(i) ==
    /\ img[i].pc = "merge"
    /\ ~((img[i].held \/ img[i].nilClient) /\ poolShut.closed)
    /\ img' = [img EXCEPT ![i].pc = "done", ![i].held = FALSE,
                          ![i].chunks = IF img[i].ollamaText # ""
                                        THEN <<OCRChunk(img[i].conf), OllamaChunk(img[i].ollamaText)>>
                                        ELSE <<OCRChunk(img[i].conf)>>]
    /\ ollamaPool' = IF img[i].held /\ ollamaPool < ollamaConfig.MaxPoolSize
                     THEN ollamaPool + 1 ELSE ollamaPool
    /\ UNCHANGED ollamaConfig
    /\ UNCHANGED <<lvars, pvars, wvars, qvars, bvars, fvars, cvars, svars, hvars, poolShut>>

\* HandleDocument turns what Process returned into the result document.
ImgConvert(i) ==
    /\ img[i].pc = "done"
    /\ img' = [img EXCEPT ![i].pc = "converted",
                          ![i].doc = IF img[i].err # ""
                                     THEN [err |-> "failed to process document"]
                                     ELSE IF ConvertError(Len(img[i].chunks)) # ""
                                     THEN [err |-> ConvertError(Len(img[i].chunks))]
                                     ELSE Convert(img[i].chunks, <<>>)]
    /\ UNCHANGED <<ollamaConfig, ollamaPool>>
    /\ UNCHANGED <<lvars, pvars, wvars, qvars, bvars, fvars, cvars, svars, hvars, poolShut>>

\* The handler's context is cancelled while Process runs.
ImgCtxCancel(i) ==
    /\ img[i].pc \notin {"done", "converted", "panic"}
    /\ ~img[i].ctxDone
    /\ img' = [img EXCEPT ![i].ctxDone = TRUE]
    /\ UNCHANGED <<ollamaConfig, ollamaPool>>
    /\ UNCHANGED <<lvars, pvars, wvars, qvars, bvars, fvars, cvars, svars, hvars, poolShut>>

NextImage ==
    \/ \E i \in ImgTasks : ImgOCR(i)
    \/ \E i \in ImgTasks : ImgGetClient(i)
    \/ \E i \in ImgTasks : ImgGetPark(i)
    \/ \E i \in ImgTasks : ImgGetTimeout(i)
    \/ \E i \in ImgTasks : ImgGetCancelled(i)
    \/ \E i \in ImgTasks : ImgAnalyze(i)
    \/ \E i \in ImgTasks : ImgReturn(i)
    \/ \E i \in ImgTasks : ImgConvert(i)
    \/ \E i \in ImgTasks : ImgCtxCancel(i)

InitImage ==
    /\ PipelineInit /\ queuePriority = 0 /\ PdfIdle
    /\ WorkerIdle /\ QueueIdle /\ BatchIdle /\ FactoryInit
    /\ ImageInit /\ CleanupIdle /\ ShutdownIdle /\ HandleIdle

\* Every goroutine that can take a step takes it, and a timer that has been
\* started fires; a vision call is not required ever to answer and nobody is
\* required to cancel.
FairImage ==
    \A i \in ImgTasks :
        /\ WF_vars(ImgOCR(i)) /\ WF_vars(ImgGetPark(i)) /\ WF_vars(ImgGetTimeout(i))
        /\ WF_vars(ImgGetCancelled(i)) /\ WF_vars(ImgReturn(i)) /\ WF_vars(ImgConvert(i))

SpecImage == InitImage /\ [][NextImage]_vars /\ FairImage

\* --------------------------------------------------- closing the pool
\* Processor.Close -> OllamaClientPool.Close, called while image tasks are
\* in Process: the channel is closed and the clients idle in it are drained
\* and closed. A second call is not modelled.
PoolClose ==
    /\ ~poolShut.closed
    /\ poolShut' = [closed |-> TRUE, closedClients |-> ollamaPool]
    /\ ollamaPool' = 0
    /\ UNCHANGED <<ollamaConfig, img>>
    /\ UNCHANGED <<lvars, pvars, wvars, qvars, bvars, fvars, cvars, svars, hvars>>

\* OllamaClientPool.Get on the closed, drained channel: the receive is ready
\* at once and gives the zero value, so Get returns a nil client and a nil
\* error.
ImgGetNil(i) ==
    /\ img[i].pc \in {"get", "parked"}
    /\ poolShut.closed
    /\ ollamaPool = 0
    /\ img' = [img EXCEPT ![i].pc = "analyze", ![i].nilClient = TRUE]
    /\ UNCHANGED <<ollamaConfig, ollamaPool, poolShut>>
    /\ UNCHANGED <<lvars, pvars, wvars, qvars, bvars, fvars, cvars, svars, hvars>>

\* AnalyzeImage on the nil client: once the image is encoded, reading
\* c.model dereferences nil and the goroutine panics.
ImgNilDeref(i) ==
    /\ img[i].pc = "analyze"
    /\ img[i].nilClient
    /\ img' = [img EXCEPT ![i].pc = "panic", ![i].err = "nil pointer dereference"]
    /\ UNCHANGED <<ollamaConfig, ollamaPool, poolShut>>
    /\ UNCHANGED <<lvars, pvars, wvars, qvars, bvars, fvars, cvars, svars, hvars>>

\* The deferred Put of a Process that holds a client (or the nil one) when
\* the channel is closed: the send case of the select is chosen on a closed
\* channel and the goroutine panics.
ImgPutClosed(i) ==
    /\ img[i].pc = "merge"
    /\ poolShut.closed
    /\ img[i].held \/ img[i].nilClient
    /\ img' = [img EXCEPT ![i].pc = "panic", ![i].held = FALSE,
                          ![i].err = "send on closed channel"]
    /\ UNCHANGED <<ollamaConfig, ollamaPool, poolShut>>
    /\ UNCHANGED <<lvars, pvars, wvars, qvars, bvars, fvars, cvars, svars, hvars>>

NextPoolClose ==
    \/ NextImage
    \/ PoolClose
    \/ \E i \in ImgTasks : ImgGetNil(i)
    \/ \E i \in ImgTasks : ImgNilDeref(i)
    \/ \E i \in ImgTasks : ImgPutClosed(i)

SpecPoolClose == InitImage /\ [][NextPoolClose]_vars

\* ============================================================ cleanup sweep
\* CleanupBefore on a bucket that uploads keep writing to. The S3 and the
\* MinIO implementation differ in what they do with a listing error.
ObjKeys == <<"a.pdf", "result:1">>

Contents == {"v1", "v2"}

NoObject == [present |-> FALSE, lastModified |-> 0, content |-> ""]

CleanupInit ==
    /\ clock = 0
    /\ objects = [k \in 1..Len(ObjKeys) |-> NoObject]
    /\ sweep = NoSweep

\* Time passes on the store's host.
CleanupTick ==
    /\ clock < MaxClock
    /\ clock' = clock + 1
    /\ UNCHANGED <<objects, sweep>>
    /\ UNCHANGED <<lvars, pvars, wvars, qvars, bvars, fvars, ivars, svars, hvars>>

\* storage.Store: the key is (over)written and stamped with the current time.
PutObject(k, c) ==
    /\ objects' = [objects EXCEPT ![k] =
                     [present |-> TRUE, lastModified |-> clock, content |-> c]]
    /\ UNCHANGED <<clock, sweep>>
    /\ UNCHANGED <<lvars, pvars, wvars, qvars, bvars, fvars, ivars, svars, hvars>>

\* CleanupBefore(threshold) is called on one of the two stores; the service
\* passes a threshold that is not in the future.
CleanupEnter(impl, threshold) ==
    /\ sweep.pc \in {"idle", "returned"}
    /\ sweep' = [NoSweep EXCEPT !.pc = "list", !.impl = impl, !.threshold = threshold]
    /\ UNCHANGED <<clock, objects>>
    /\ UNCHANGED <<lvars, pvars, wvars, qvars, bvars, fvars, ivars, svars, hvars>>

\* The present objects in key order, as a listing reports them.
Listing ==
    LET present == SelectSeq([k \in 1..Len(ObjKeys) |-> k], LAMBDA k : objects[k].present)
    IN  [j \in 1..Len(present) |->
            [key |-> present[j], lastModified |-> objects[present[j]].lastModified]]

\* The listing is fetched: all of it, or the entries before a listing error.
CleanupList ==
    /\ sweep.pc = "list"
    /\ \E n \in 0..Len(Listing), failed \in BOOLEAN :
        /\ ~failed => n = Len(Listing)
        /\ sweep' = [sweep EXCEPT !.pc = "visit", !.listed = SubSeq(Listing, 1, n),
                                  !.listErr = failed]
    /\ UNCHANGED <<clock, objects>>
    /\ UNCHANGED <<lvars, pvars, wvars, qvars, bvars, fvars, ivars, svars, hvars>>

\* One listed object: if the listing says it was modified before the
\* threshold, Delete its key; a failed Delete is logged and skipped.
CleanupVisit ==
    /\ sweep.pc = "visit"
    /\ sweep.pos < Len(sweep.listed)
    /\ LET obj == sweep.listed[sweep.pos + 1]
       IN  IF obj.lastModified < sweep.threshold
           THEN \E ok \in BOOLEAN :
                  /\ objects' = IF ok THEN [objects EXCEPT ![obj.key] = NoObject] ELSE objects
                  /\ sweep' = [sweep EXCEPT !.pos = sweep.pos + 1,
                                            !.delFailed = sweep.delFailed \/ ~ok]
           ELSE /\ sweep' = [sweep EXCEPT !.pos = sweep.pos + 1]
                /\ UNCHANGED objects
    /\ UNCHANGED clock
    /\ UNCHANGED <<lvars, pvars, wvars, qvars, bvars, fvars, ivars, svars, hvars>>

\* The loop is over: S3 returns the listing error, MinIO has only logged it.
CleanupReturn ==
    /\ sweep.pc = "visit"
    /\ sweep.pos = Len(sweep.listed)
    /\ sweep' = [sweep EXCEPT !.pc = "returned",
                              !.ret = IF sweep.listErr /\ sweep.impl = "s3"
                                      THEN "failed to list objects" ELSE ""]
    /\ UNCHANGED <<clock, objects>>
    /\ UNCHANGED <<lvars, pvars, wvars, qvars, bvars, fvars, ivars, svars, hvars>>

NextCleanup ==
    \/ CleanupTick
    \/ \E k \in 1..Len(ObjKeys), c \in Contents : PutObject(k, c)
    \/ \E impl \in {"s3", "minio"}, threshold \in 0..clock : CleanupEnter(impl, threshold)
    \/ CleanupList
    \/ CleanupVisit
    \/ CleanupReturn

InitCleanup ==
    /\ PipelineInit /\ queuePriority = 0 /\ PdfIdle
    /\ WorkerIdle /\ QueueIdle /\ BatchIdle /\ FactoryInit
    /\ ImageIdle /\ CleanupInit /\ ShutdownIdle /\ HandleIdle

SpecCleanup == InitCleanup /\ [][NextCleanup]_vars

\* ========================================================= worker shutdown
\* cmd/worker: main starts the worker (Start runs server.Run in a goroutine),
\* waits for SIGINT/SIGTERM, calls Stop and returns. server.Run listens for
\* the same signals and then shuts the server down. The process ends when
\* main returns, whatever the other goroutines are doing.
NumHandlers == 3

Handlers == 1..NumHandlers

\* Start has returned: the server consumes the queues, main waits on sigChan.
ShutdownInit ==
    /\ mainPc = "serving"
    /\ runPc = "serving"
    /\ srvState = "active"
    /\ handlers = [h \in Handlers |-> "idle"]
    /\ stopChan = 0

\* The server hands a task to a free handler goroutine.
ServeTask(h) ==
    /\ mainPc # "exited"
    /\ srvState = "active"
    /\ handlers[h] = "idle"
    /\ handlers' = [handlers EXCEPT ![h] = "running"]
    /\ UNCHANGED <<mainPc, runPc, srvState, stopChan>>
    /\ UNCHANGED <<lvars, pvars, wvars, qvars, bvars, fvars, ivars, cvars, hvars>>

\* A handler returns by itself ("done") or because its 30 minute timeout has
\* expired ("timedout"); nothing returns once the process is gone.
HandlerReturn(h, outcome) ==
    /\ mainPc # "exited"
    /\ handlers[h] = "running"
    /\ handlers' = [handlers EXCEPT ![h] = outcome]
    /\ UNCHANGED <<mainPc, runPc, srvState, stopChan>>
    /\ UNCHANGED <<lvars, pvars, wvars, qvars, bvars, fvars, ivars, cvars, hvars>>

\* SIGINT or SIGTERM arrives: main's sigChan and the server's own channel
\* both receive it.
Signal ==
    /\ mainPc = "serving"
    /\ mainPc' = "signalled"
    /\ UNCHANGED <<runPc, srvState, handlers, stopChan>>
    /\ UNCHANGED <<lvars, pvars, wvars, qvars, bvars, fvars, ivars, cvars, hvars>>

\* BaseWorker.Stop, called by main: close(stopChan), then server.Stop(), which
\* makes an active server stop pulling tasks and returns at once.
Stop ==
    /\ mainPc = "signalled"
    /\ mainPc' = "stopped"
    /\ stopChan' = stopChan + 1
    /\ srvState' = IF srvState = "active" THEN "stopped" ELSE srvState
    /\ UNCHANGED <<runPc, handlers>>
    /\ UNCHANGED <<lvars, pvars, wvars, qvars, bvars, fvars, ivars, cvars, hvars>>

\* main logs "Worker stopped" and begins to return: the deferred cancel()
\* cancels the context that Start was given.
MainCancel ==
    /\ mainPc = "stopped"
    /\ mainPc' = "returning"
    /\ UNCHANGED <<runPc, srvState, handlers, stopChan>>
    /\ UNCHANGED <<lvars, pvars, wvars, qvars, bvars, fvars, ivars, cvars, hvars>>

\* The goroutine that Start left waiting on ctx.Done() wakes up and calls
\* BaseWorker.Stop: close(stopChan) runs on the channel main's Stop has
\* closed, which is a run-time panic that ends the process.
WatcherStop ==
    /\ mainPc = "returning"
    /\ stopChan = 1
    /\ stopChan' = stopChan + 1
    /\ mainPc' = "exited"
    /\ UNCHANGED <<runPc, srvState, handlers>>
    /\ UNCHANGED <<lvars, pvars, wvars, qvars, bvars, fvars, ivars, cvars, hvars>>

\* The remaining deferred call (log.Sync) is done and main returns: the
\* process exits.
MainReturn ==
    /\ mainPc = "returning"
    /\ mainPc' = "exited"
    /\ UNCHANGED <<runPc, srvState, handlers, stopChan>>
    /\ UNCHANGED <<lvars, pvars, wvars, qvars, bvars, fvars, ivars, cvars, hvars>>

\* The goroutine in server.Run has seen the signal and begins the server's
\* shutdown: no more tasks are pulled.
ServerShutdown ==
    /\ mainPc \in {"signalled", "stopped", "returning"}
    /\ runPc = "serving"
    /\ runPc' = "shutdown"
    /\ srvState' = "closed"
    /\ UNCHANGED <<mainPc, handlers, stopChan>>
    /\ UNCHANGED <<lvars, pvars, wvars, qvars, bvars, fvars, ivars, cvars, hvars>>

\* The server's shutdown ends, when the handlers have returned or when its
\* own shutdown timeout has run out; server.Run returns in its goroutine.
ServerRunReturn ==
    /\ mainPc # "exited"
    /\ runPc = "shutdown"
    /\ runPc' = "returned"
    /\ UNCHANGED <<mainPc, srvState, handlers, stopChan>>
    /\ UNCHANGED <<lvars, pvars, wvars, qvars, bvars, fvars, ivars, cvars, hvars>>

NextShutdown ==
    \/ \E h \in Handlers : ServeTask(h)
    \/ \E h \in Handlers, outcome \in {"done", "timedout"} : HandlerReturn(h, outcome)
    \/ Signal
    \/ Stop
    \/ MainCancel
    \/ WatcherStop
    \/ MainReturn
    \/ ServerShutdown
    \/ ServerRunReturn

InitShutdown ==
    /\ PipelineInit /\ queuePriority = 0 /\ PdfIdle
    /\ WorkerIdle /\ QueueIdle /\ BatchIdle /\ FactoryInit
    /\ ImageIdle /\ CleanupIdle /\ ShutdownInit /\ HandleIdle

SpecShutdown == InitShutdown /\ [][NextShutdown]_vars

\* ================================================== handler on any task
\* handleDocumentProcess and the head of HandleDocument on the tasks a
\* producer can have put on the queue: the payload is a JSON object decoded
\* into map[string]interface{}, so "fileId" can be absent, null, a number or
\* a string.
MaxHandled == 2

FileIdKinds == {"absent", "null", "float64", "string"}

TaskShapes == [id : {"", "t1"}, metadataNil : BOOLEAN, payloadNil : BOOLEAN,
               fileId : FileIdKinds]

\* HandleDocument up to storage.Get: the nil checks, then the type assertion
\* task.Payload["fileId"].(string), which panics unless the value is a string.
HandleDocumentHead(task) ==
    IF task.payloadNil \/ task.metadataNil
    THEN "invalid task: missing required data"
    ELSE IF task.fileId # "string"
    THEN "panic"
    ELSE "get"

\* handleDocumentProcess: the field check, then HandleDocument; once the file
\* id is read, HandleDocument ends with nil or with an error of its steps.
handleDocumentProcess(task) ==
    IF task.id = "" \/ task.metadataNil \/ task.payloadNil
    THEN {"invalid task data: missing required fields"}
    ELSE IF HandleDocumentHead(task) = "get"
    THEN {"nil", "failed to get file", "failed to process document"}
    ELSE {HandleDocumentHead(task)}

\* The worker is given some task.
HandleCall(task) ==
    /\ Len(handled) < MaxHandled
    /\ task.payloadNil => task.fileId = "absent"
    /\ \E outcome \in handleDocumentProcess(task) :
         handled' = Append(handled, [task |-> task, outcome |-> outcome])
    /\ UNCHANGED <<lvars, pvars, wvars, qvars, bvars, fvars, ivars, cvars, svars>>

NextHandle == \E task \in TaskShapes : HandleCall(task)

InitHandle ==
    /\ PipelineInit /\ queuePriority = 0 /\ PdfIdle
    /\ WorkerIdle /\ QueueIdle /\ BatchIdle /\ FactoryInit
    /\ ImageIdle /\ CleanupIdle /\ ShutdownIdle /\ HandleIdle

SpecHandle == InitHandle /\ [][NextHandle]_vars

\* ================================================================ claims
\* Position of a stored status on the path pending -> running -> terminal.
\* A status outside the five names is reported as pending by GetProcessingStatus.
Rank(s) ==
    IF s \in {"completed", "failed", "cancelled"} THEN 3
    ELSE IF s = "running" THEN 2
    ELSE 1

\* C1: the statuses stored under task_status:<id> only advance along
\* pending -> running -> {completed, failed, cancelled}: a write never
\* replaces a stored status by an earlier one.
C1_StatusMonotone ==
    [][\A t \in Tasks :
        (kv[t].status # "none" /\ kv'[t].status # "none")
            => Rank(kv'[t].status) >= Rank(kv[t].status)]_vars

\* C2: whenever a status query reports completed for a task, result:<id>
\* is in the blob store and holds a document whose taskId is that id.
C2_CompletedHasResult ==
    \A t \in Tasks :
        GetProcessingStatus(t).status = "completed"
            => /\ blobs[ResultKey(t)].present
               /\ blobs[ResultKey(t)].taskId = t

\* C3: completed is written to the KV only by a handler whose Store of
\* result:<id> has already returned successfully in the same attempt.
C3_ResultBeforeCompleted ==
    [][\A t \in Tasks :
        (kv'[t] # kv[t] /\ kv'[t].status = "completed")
            => (hpc[t] = "save" /\ resultStored[t])]_vars

C3_Witness ==
    \E t \in Tasks :
        /\ kv[t].status = "completed"
        /\ resultStored[t]
        /\ broker[t].retried > 0

\* C4: once the retries of a task are exhausted (the broker archived it), a
\* status query reports failed together with the handler's last error.
C4_ExhaustedIsFailed ==
    \A t \in Tasks :
        broker[t].state = "archived"
            => /\ GetProcessingStatus(t).status = "failed"
               /\ GetProcessingStatus(t).error = broker[t].lastErr

\* C5: a status query right after a successful CancelTask of a task that was
\* still waiting in its queue reports cancelled.
C5_CancelPendingReportsCancelled ==
    [][\A t \in Tasks :
        (t \notin cancelled /\ t \in cancelled' /\ broker[t].state \in {"scheduled", "pending"})
            => GetProcessingStatus(t)'.status = "cancelled"]_vars

\* C6: while a worker executes HandleDocument for a task, a status query for
\* that task reports running.
C6_RunningWhileHandling ==
    \A t \in Tasks :
        hpc[t] \in {"get", "process", "store", "save"}
            => GetProcessingStatus(t).status = "running"

\* C7: with no KV entry for a task, GetTaskStatus returns the projection of
\* the broker's record whenever the task is in one of the three queues.
C7_ProbeFindsTask ==
    \A t \in Tasks :
        (kv[t].status = "none" /\ broker[t].state # "none")
            => /\ ~GetTaskStatus(t).err
               /\ GetTaskStatus(t).status = ConvertAsynqStatus(broker[t])

\* C8: after CancelTask has succeeded for a task, no worker runs the handler
\* for that task and the task is in no queue.
C8_NoHandlerAfterCancel ==
    \A t \in cancelled : hpc[t] = "idle" /\ broker[t].state = "none"

C8_Witness ==
    \E t \in cancelled : beacon[t] = "" /\ now > 0

\* C9: when the handler's context is cancelled while HandleDocument runs, the
\* task gets the status cancelled and the broker does not retry it.
C9_CtxCancelIsTerminal ==
    [][\A t \in Tasks :
        HandleCtxCancelled(t)
            => /\ kv'[t].status = "cancelled"
               /\ broker'[t].state \notin {"retry", "pending"}]_vars

\* C10: two invocations of the handler on the same task and the same stored
\* bytes that both succeed produce the same document: same chunks in the same
\* order and the same metadata, the order of sections included.
C10_RetryIdentical ==
    (Len(docs) = 2 /\ docs[1].err = "" /\ docs[2].err = "") => docs[1] = docs[2]

\* C11: the chunks Process returns for a PDF are in ascending order of their
\* original page number, whatever the interleaving of the page workers.
C11_AscendingPages ==
    (cpc = "done" /\ result.err = "")
        => \A a, b \in 1..Len(result.chunks) :
                a < b => result.chunks[a].page < result.chunks[b].page

\* The pages of the document whose worker builds a chunk.
TextPages == {i \in 1..numPages : pdf[i] = "text"}

\* C12: when every page extraction succeeds and the context is not
\* cancelled, Process returns the chunks of exactly the non-null pages, each
\* page once.
C12_PagesExactlyOnce ==
    (cpc = "done" /\ ~parentCancelled /\ \A i \in 1..numPages : pdf[i] # "bad")
        => /\ result.err = ""
           /\ Len(result.chunks) = Cardinality(TextPages)
           /\ {result.chunks[k].page : k \in 1..Len(result.chunks)} = TextPages

C12_Witness ==
    /\ cpc = "done"
    /\ ~parentCancelled
    /\ \E i \in 1..numPages : pdf[i] = "null"
    /\ Len(result.chunks) >= 2
    /\ result.chunks[1].page > result.chunks[2].page

\* C13: Convert numbers the content of a ProcessedDocument 1..len(chunks) in
\* the order of the chunk sequence it was given: content[i] is chunk i and
\* has position i+1 (counting i from 0).
C13_PositionsSequential ==
    (Len(docs) = run /\ run > 0 /\ docs[run].err = "")
        => /\ Len(docs[run].content) = Len(result.chunks)
           /\ \A k \in 1..Len(result.chunks) :
                /\ docs[run].content[k].position = k
                /\ docs[run].content[k].text = result.chunks[k].content

C13_Witness ==
    /\ Len(docs) = run /\ run > 0 /\ docs[run].err = ""
    /\ Len(docs[run].content) >= 2
    /\ docs[run].content[1].page > docs[run].content[2].page

\* C14: with tasks waiting at the three priorities, the low tasks that begin
\* processing while a critical task is still waiting in its queue are at most
\* the `concurrency` tasks in flight at the transition.
C14_CriticalBeforeLow == lowEarly <= Concurrency

\* C15: Enqueue places a task with priority 1 on critical, with priority 2
\* on default and with any other priority on low, and touches no other queue.
C15_QueueByPriority ==
    [][\A id \in Tasks, p \in Priorities :
        (QueueEnqueue(id, p) /\ qtask' # qtask)
            => LET q == IF p = 1 THEN "critical" ELSE IF p = 2 THEN "default" ELSE "low"
               IN  /\ qtask[q][id].state = "none"
                   /\ qtask'[q][id].state = "scheduled"
                   /\ \A o \in QueueNames \ {q} : qtask'[o] = qtask[o]]_vars

C15_Witness ==
    \E id \in Tasks :
        /\ qtask["low"][id].state = "scheduled"
        /\ qtask["critical"][id].state = "none"
        /\ qtask["default"][id].state = "none"

\* C16: the handler is invoked at most 4 times for a task, the first attempt
\* and at most 3 retries.
C16_AtMostFourAttempts ==
    \A q \in QueueNames, id \in Tasks : qtask[q][id].attempts <= 4

C16_Witness ==
    \E q \in QueueNames, id \in Tasks :
        qtask[q][id].state = "archived" /\ qtask[q][id].attempts = 4

\* C17: an Enqueue with the id of a task the queue already holds never
\* leaves two queued tasks with that id.
C17_OneTaskPerId ==
    \A id \in Tasks :
        Cardinality({q \in QueueNames : qtask[q][id].state # "none"}) <= 1

\* C18: ProcessFile rejects a file whose size exceeds MaxFileSize or whose
\* extension is not in the allow-list, and the rejected call has written no
\* blob, enqueued no task and saved no status.
C18_RejectWritesNothing ==
    [][\A t \in Tasks, header \in Headers :
        (/\ ingest[t] = "idle"
         /\ ProcessFileHeader(t, header)
         /\ \/ header.size > MaxFileSize
            \/ ToLower(Ext(header.filename)) \notin AllowedTypes)
            => /\ ingest'[t] = "rejected"
               /\ blobs' = blobs
               /\ broker' = broker
               /\ kv' = kv]_vars

C18_Witness ==
    \E t \in Tasks :
        /\ ingest[t] = "rejected"
        /\ \A k \in BlobKeys : ~blobs[k].present
        /\ broker[t].state = "none"
        /\ kv[t].status = "none"

\* The files of the batch whose ProcessFile returned a task.
Succeeded == {i \in 1..Len(files) : fileRes[i] = "task"}

\* C19: ProcessBatch returns only after every per-file goroutine has
\* finished; the list it returns holds exactly the tasks whose ProcessFile
\* succeeded, each once; and if any file failed it returns the error of the
\* first goroutine that failed, otherwise nil.
C19_BatchResult ==
    batchPc = "returned"
        => /\ \A i \in 1..Len(files) : filePc[i] = "done" /\ fileRes[i] # ""
           /\ Len(batchRet.tasks) = Cardinality(Succeeded)
           /\ {batchRet.tasks[k] : k \in 1..Len(batchRet.tasks)} = Succeeded
           /\ (Succeeded = 1..Len(files)) <=> (batchRet.err = "")
           /\ batchRet.err # ""
                => /\ batchRet.err = batchErr
                   /\ fileRes[batchRet.err[2]] = "error"

C19_Witness ==
    /\ batchPc = "returned"
    /\ batchRet.err # ""
    /\ Len(batchRet.tasks) = 2
    /\ batchRet.tasks[1] > batchRet.tasks[2]

\* The MIME type a type string stands for: the one of its extension, or the
\* string itself when it is a MIME type of the table or of a registered
\* extractor; "" when the type is unknown.
MimeOf(fileType) ==
    IF ToLower(fileType) \in DOMAIN extToMIME THEN extToMIME[ToLower(fileType)]
    ELSE IF fileType \in {extToMIME[e] : e \in DOMAIN extToMIME} \cup DOMAIN processors
         THEN fileType
    ELSE ""

\* C20: GetProcessor resolves an extension or a MIME type to the registered
\* extractor; it gives unsupported-file-type only for an unknown type and
\* no-processor only for a known MIME type without a registered extractor.
C20_EitherForm ==
    \A k \in 1..Len(lookups) :
        LET mime == MimeOf(lookups[k].fileType)
            res == lookups[k].res
        IN  /\ mime \in DOMAIN processors
                => res.err = "" /\ res.processor = processors[mime]
            /\ res.err = "unsupported file type" => mime = ""
            /\ res.err = "no processor found for mime type"
                => mime # "" /\ mime \notin DOMAIN processors

\* C21: when the vision client cannot be had (PoolTimeout elapsed, context
\* cancelled) or the vision call fails, image Process returns no error and
\* exactly the OCR chunk; and a task waiting for a client of an exhausted
\* pool stops waiting and completes (or is given a client) although the
\* calls holding the clients never answer.
C21_VisionOptional ==
    /\ [](\A i \in ImgTasks :
            (img[i].pc \in {"done", "converted"}
             /\ img[i].vision \in {"timeout", "cancelled", "failed"})
            => (img[i].err = "" /\ img[i].chunks = <<OCRChunk(img[i].conf)>>))
    /\ \A i \in ImgTasks :
         (img[i].pc = "parked") ~> (img[i].pc \in {"analyze", "done", "converted"})

\* The second task has completed by timeout, with the OCR chunk only, while
\* the only client is still held by the first task's unanswered call.
C21_Witness ==
    /\ ollamaConfig.MaxPoolSize = 1
    /\ img[1].pc = "analyze" /\ img[1].held
    /\ img[2].pc = "converted" /\ img[2].vision = "timeout"
    /\ img[2].err = "" /\ Len(img[2].chunks) = 1

\* C22: metadata.confidence is the mean of the confidence values of the
\* chunks that carry one, and 1.0 when none does.
C22_ConfidenceMean ==
    \A i \in ImgTasks :
        (img[i].pc = "converted" /\ img[i].doc.err = "") =>
            LET cs == img[i].chunks
                carriers == {k \in 1..Len(cs) : "confidence" \in DOMAIN cs[k]}
                c == img[i].doc.confidence
            IN  IF carriers = {}
                THEN c.num = c.den
                ELSE c.num * Cardinality(carriers) = totalConfidence(cs, Len(cs)) * c.den

\* C23: when the extractor returns no chunk and no error, Convert refuses,
\* HandleDocument returns that error to the broker, and the invocation writes
\* neither a result blob nor a status.
C23_EmptyIsError ==
    [][\A t \in Tasks :
        HandleProcessWith(t, [err |-> "", n |-> 0]) =>
            /\ ConvertError(0) # ""
            /\ hpc'[t] = "idle" /\ beacon'[t] = "failed"
            /\ broker'[t].state \in {"retry", "archived"}
            /\ broker'[t].lastErr = "failed to convert document"
            /\ blobs' = blobs /\ kv' = kv /\ resultStored' = resultStored]_vars

\* An invocation ended on Convert's refusal and the task has no result blob
\* and no completed status.
C23_Witness ==
    \E t \in Tasks :
        /\ broker[t].lastErr = "failed to convert document"
        /\ ~blobs[ResultKey(t)].present
        /\ kv[t].status # "completed"

\* C26: at the moment HandleDocument returns nil the KV entry of the task is
\* completed with progress 1.0, and a completed entry is never replaced by
\* another status (it can only expire).
C26_CompletedSticks ==
    [][\A t \in Tasks :
        /\ (hpc[t] = "save" /\ hpc'[t] = "ret")
              => (kv'[t].status = "completed" /\ kv'[t].progress = 100)
        /\ kv[t].status = "completed" => kv'[t].status \in {"completed", "none"}]_vars

\* C24: once CleanupBefore(threshold) has returned nil without a failed
\* Delete, no object modified strictly before the threshold is left; and no
\* step of the sweep removes or changes an object modified at or after it.
C24_SweepExact ==
    /\ []((sweep.pc = "returned" /\ sweep.ret = "" /\ ~sweep.delFailed) =>
            \A k \in 1..Len(ObjKeys) :
                objects[k].present => objects[k].lastModified >= sweep.threshold)
    /\ [][(sweep.pc = "visit" /\ sweep' # sweep) =>
            \A k \in 1..Len(ObjKeys) :
                (objects[k].present /\ objects[k].lastModified >= sweep.threshold)
                    => objects'[k] = objects[k]]_vars

\* C25: after the signal, once Stop has returned no handler is started any
\* more, and the process has not exited while a handler is still running
\* (neither completed nor timed out).
C25_GracefulShutdown ==
    /\ [](mainPc = "exited" => \A h \in Handlers : handlers[h] # "running")
    /\ [][(mainPc \in {"stopped", "returning", "exited"}) =>
            (\A h \in Handlers : (handlers[h] = "idle") => (handlers'[h] = "idle"))]_vars

\* C27: during a Process call at most MaxWorkers (4) page workers are between
\* taking a slot and releasing it, and they are exactly the slots in use.
C27_AtMostFourWorkers ==
    /\ Cardinality({i \in 1..numPages : wpc[i] \in {"run", "send"}}) <= MaxWorkers
    /\ Cardinality({i \in 1..numPages : wpc[i] \in {"run", "send"}}) = sem

\* Four workers hold the slots while a fifth one waits.
C27_Witness ==
    /\ Cardinality({i \in 1..numPages : wpc[i] \in {"run", "send"}}) = MaxWorkers
    /\ \E i \in 1..numPages : wpc[i] = "wait"

\* C28: Process terminates whatever the pages, the interleaving, errors and
\* cancellation: a worker ready to send always finds room in chunkChan, the
\* channel is closed once, after every worker has returned, and the call
\* reaches its return.
C28_ProcessTerminates ==
    /\ [](\A i \in 1..MaxWide :
            (i <= numPages /\ wpc[i] = "send") => Len(chunkChan) < numPages)
    /\ [][/\ chanClosed => chanClosed'
          /\ (~chanClosed /\ chanClosed') => \A i \in 1..numPages : wpc[i] = "done"]_vars
    /\ <>(cpc = "done")

\* A call on a document longer than the semaphore ended with an error after
\* the channel was closed.
C28_Witness ==
    /\ cpc = "done" /\ chanClosed
    /\ numPages = MaxWide
    /\ result.err # ""

\* C29: when a page worker fails on its page, Process returns a page error
\* (the first one) and no chunks, and once that error is recorded no worker
\* that has no slot yet goes on to extract its page.
C29_FirstErrorStops ==
    /\ \A i \in 1..MaxWide :
         []((i <= numPages /\ wpc[i] = "run" /\ pdf[i] = "bad") =>
              [](cpc = "done" =>
                   /\ result.chunks = <<>>
                   /\ \E j \in 1..numPages :
                        pdf[j] = "bad" /\ result.err = PageError(j)))
    /\ [][(gerr \notin {"", "context canceled"}) =>
            (\A i \in 1..numPages : (wpc'[i] = "run") => (wpc[i] = "run"))]_vars

\* C30: when the context is cancelled while a page worker waits for a slot
\* (all four taken), that worker does not extract its page, and Process
\* returns the cancellation error and no chunks.
C30_CancelWhileWaiting ==
    \A i \in 1..MaxWide :
        []((i <= numPages /\ wpc[i] = "wait" /\ sem = MaxWorkers
            /\ parentCancelled /\ gerr = "") =>
             [](i <= numPages =>
                  /\ wpc[i] \in {"wait", "done"}
                  /\ cpc = "done" => (result.err = "context canceled" /\ result.chunks = <<>>)))

\* C35: in every shutdown sequence of the worker process close(stopChan)
\* executes at most once, so that no call of Stop panics on a closed channel.
C35_StopChanClosedOnce == stopChan <= 1
\* Clients checked out of the pool.
HeldCount == Cardinality({i \in ImgTasks : img[i].held})

C32_AllClientsClosed ==
    poolShut.closed => poolShut.closedClients = ollamaConfig.MaxPoolSize

\* C36: whatever the interleaving of image Process calls with
\* Processor.Close, Get does not return a nil client with a nil error and
\* Put does not send on a closed channel (no handler goroutine panics).
C36_CloseSafe ==
    \A i \in ImgTasks : ~img[i].nilClient /\ img[i].pc # "panic"
\* C33: CleanupBefore goes on after a failed deletion, and when it returns
\* success every object the listing could enumerate has been considered: a
\* sweep whose listing failed does not return nil, with S3 and with MinIO.
C33_ListingFailureReported ==
    (sweep.pc = "returned" /\ sweep.ret = "")
        => (~sweep.listErr /\ sweep.pos = Len(sweep.listed))
\* C34: every task is processed from the bytes uploaded in its own intake
\* request: whenever HandleDocument fetches the file of a task, the object it
\* reads is the one that task's ProcessFile call stored, also when another
\* request uploads under the same filename.
C34_OwnUpload ==
    [][\A t \in Uploads :
        (hpc[t] = "get" /\ hpc'[t] = "process")
            => (blobs[FileKey(fileId[t])].taskId = t)]_vars
\* C40: under the configuration GetService builds (QueuePriority left at
\* zero) every task ProcessFile creates is enqueued on the low queue; no
\* ingested task is ever on critical or default.
C40_IngestOnLow ==
    \A t \in Uploads : broker[t].state # "none" => broker[t].queue = "low"

\* Two uploads have been enqueued, and one of them is being handled.
C40_Witness ==
    /\ \A t \in Uploads : broker[t].state # "none" /\ broker[t].queue = "low"
    /\ \E t \in Uploads : broker[t].state = "active"
\* C37: every extension of the ingest allow-list resolves to a registered
\* extractor: GetProcessor called with an allowed extension returns a
\* processor and no error.
C37_AllowedHasProcessor ==
    \A k \in 1..Len(lookups) :
        lookups[k].fileType \in AllowedTypes => lookups[k].res.err = ""
\* C38: when ProcessBatch returns without error, the tasks it returns are in
\* the order of the input files: tasks[k] is the task created for files[k],
\* as the batch HTTP handler pairs them.
C38_BatchOrder ==
    (batchPc = "returned" /\ batchRet.err = "")
        => /\ Len(batchRet.tasks) = Len(files)
           /\ \A k \in 1..Len(batchRet.tasks) : batchRet.tasks[k] = k
\* C39: for every task that passes the worker's field check (non-empty id,
\* metadata and payload not nil) HandleDocument returns nil or an error and
\* does not panic, also when the payload has no fileId or one that is not a
\* string.
C39_NoPanic ==
    \A k \in 1..Len(handled) :
        (handled[k].task.id # "" /\ ~handled[k].task.metadataNil /\ ~handled[k].task.payloadNil)
            => handled[k].outcome # "panic"
====
